---------------------------- MODULE Spec2Model ----------------------------
(***************************************************************************)
(* target-s3tables: the commit-gated checkpoint manager of                 *)
(* target_s3tables/target.py (TargetS3Tables) and the commit retry engine  *)
(* of target_s3tables/retry.py (run_with_commit_retries).                  *)
(*                                                                         *)
(* SpecTarget is the checkpoint manager driven by the Singer input stream  *)
(* (RECORD and STATE messages, drains of sinks).  SpecObserved is the      *)
(* checkpoint manager with the observations of the process recorded.       *)
(* SpecPersist is _persist_state statement by statement, with a kill of    *)
(* the process at any of them.  SpecRetry is one run of the retry engine   *)
(* against every sequence of loader / commit / status outcomes.            *)
(* SpecClassify is the two classifier predicates applied to one exception. *)
(* SpecLocks is get_table_commit_lock called by threads that hold the      *)
(* returned lock around a retry run.  SpecWorkers is                       *)
(* record_state_after_commit statement by statement, run by the threads    *)
(* of a parallel drain.  SpecBackoff is compute_backoff over the attempts   *)
(* of a policy that validate_config accepts.  SpecRemote is a retry run    *)
(* together with the remote store: per attempt, whether the commit was     *)
(* applied.  Each specification leaves the other subsystems' variables     *)
(* untouched.                                                              *)
(***************************************************************************)
EXTENDS Integers, Sequences, FiniteSets, TLC

(***************************************************************************)
(* Bounds of the model.                                                    *)
(***************************************************************************)
\* distinct non-empty checkpoint values the input stream may carry
NumStates == 2
\* destinations (sinks / streams)
NumSinks == 2
\* input messages (RECORD or STATE) one process reads
MaxInput == 3

(***************************************************************************)
(* Checkpoint values.  A Singer state is a JSON mapping; equality is       *)
(* Python's structural ==.  The model keeps one integer per structurally   *)
(* distinct value: None, the empty mapping {}, and the non-empty mappings  *)
(* 1..NumStates.  None and {} are the two falsy values the code tests      *)
(* with `not state` / `state or {}`.                                       *)
(***************************************************************************)
None == -1

EmptyState == 0

Checkpoints == EmptyState..NumStates

StateValues == {None} \cup Checkpoints

\* Python truthiness of a state value: None and {} are falsy
Truthy(state) == state # None /\ state # EmptyState

Sinks == 1..NumSinks

\* the checkpoint file: <<>> when the path does not exist, <<v>> when it
\* holds the JSON text of v (json.dump / json.load of a JSON-native mapping
\* give back a structurally equal value)
FileContents == {<<>>} \cup {<<v>> : v \in StateValues}

VARIABLES
    \* ---- TargetS3Tables -------------------------------------------------
    phase,                 \* "new" (not constructed), "running", "failed"
    state_persist_enabled, \* config["state_persist_enabled"]
    state_file,            \* content of config["state_persist_path"]
    latest_state,          \* self._latest_state
    last_committed_state,  \* self._last_committed_state
    stdout,                \* STATE lines written to the output channel
    pending,               \* per sink: input positions of buffered records
    pos,                   \* number of input messages read
    latest_pos,            \* input position at which latest_state was assigned
    startup_out,           \* the output channel as the constructor left it
    load_warning,          \* "Failed to load persisted state" was logged
    drain_error,           \* error that ended drain_one, "" when none
    \* ---- run_with_commit_retries ---------------------------------------
    config,                \* the CommitRetryConfig of the run
    has_status_check_fn,   \* status_check_fn is not None
    pc,                    \* control point of the run
    attempt,               \* the local `attempt` of run_with_commit_retries
    now,                   \* time.monotonic() - start, in ms
    loads,                 \* calls of table_loader
    table,                 \* the local `table`: number of the table_loader
                           \* call that returned it, 0 before the first
    uses,                  \* per commit_fn / status_check_fn call, in call
                           \* order: the `table` it was given
    commits,               \* calls of commit_fn
    sleeps,                \* calls of time.sleep: <<kind, delay in ms>>
    history,               \* per commit attempt: outcome, exception, polls
    last_exc,              \* the exception caught in the current attempt
    result,                \* <<>> until the run returns, then <<value>>
    raised,                \* <<>> until the run raises, then <<error>>
    applied,               \* per commit attempt: whether the remote store
                           \* applied the change (kept under SpecRemote)
    \* ---- _persist_state, statement by statement -------------------------
    ppc,                   \* statement of _persist_state about to run
    persist_arg,           \* <<>> before the first call, then <<state>>, the
                           \* argument of the call
    tmp_file,              \* content of the NamedTemporaryFile of the call
    file_before,           \* content of the checkpoint file at the call
    \* ---- the observations of a process, kept under SpecObserved ---------
    last_seen,             \* per checkpoint value: None when _latest_state
                           \* never held it, 0 when the constructor assigned
                           \* it, else the input position of the most recent
                           \* STATE message that carried it
    \* ---- retry.py: one call of the classifier predicates ---------------
    caught,                \* <<>> or <<exc>>, the exception handed to them
    verdict,               \* <<>> before the call, then the two results
    \* ---- retry.py: the lock registry and the threads that use it -------
    registry,              \* _TABLE_LOCKS: key -> lock
    guard,                 \* holder of _TABLE_LOCKS_GUARD, 0 when free
    owner,                 \* per RLock: owning thread (0: none) and depth
    locks_created,         \* number of threading.RLock() calls so far
    threads,               \* per thread: statement, table_id, key, lock
    returned,              \* the <<table_id, lock>> of every return so far
    \* ---- target.py: threads inside record_state_after_commit -----------
    workers                \* per thread: statement about to run, and the
                           \* argument of its _write_state_message call

targetVars == <<phase, state_persist_enabled, state_file, latest_state,
                last_committed_state, stdout, pending, pos, latest_pos,
                startup_out, load_warning, drain_error>>

retryVars == <<config, has_status_check_fn, pc, attempt, now, loads, table,
               uses, commits, sleeps, history, last_exc, result, raised,
               applied>>

persistVars == <<ppc, persist_arg, tmp_file, file_before>>

observedVars == <<last_seen>>

classifyVars == <<caught, verdict>>

\* what the checkpoint manager, a retry run and _persist_state leave alone
lockVars == <<registry, guard, owner, locks_created, threads, returned>>

workerVars == <<workers>>

sideVars == <<classifyVars, lockVars, workerVars>>

vars == <<targetVars, retryVars, persistVars, observedVars, sideVars>>

(***************************************************************************)
(* The checkpoint manager's fields as one value, so that the methods that  *)
(* call each other compose: out = stdout, last = _last_committed_state,    *)
(* file = the checkpoint file, writes = the values for which the operation *)
(* in progress ran the write of _persist_state (temporary file + rename),  *)
(* in call order.                                                          *)
(***************************************************************************)
Manager ==
    [out |-> stdout, last |-> last_committed_state, file |-> state_file,
     writes |-> <<>>]

\* a plausible slip: the state_persist_enabled test left out
persist_state_always(m, state, ok) ==
    IF ok THEN [m EXCEPT !.file = <<state>>, !.writes = Append(@, state)]
    ELSE [m EXCEPT !.writes = Append(@, state)]

\* _persist_state(state): nothing when persistence is disabled; the temp
\* file + os.replace installs the whole new content; any exception is
\* caught and logged (ok = FALSE), leaving the file as it was.
persist_state(m, state, ok) ==
    IF ~state_persist_enabled THEN m
    ELSE IF ok THEN [m EXCEPT !.file = <<state>>, !.writes = Append(@, state)]
    ELSE [m EXCEPT !.writes = Append(@, state)]

\* a plausible slip: the duplicate check of _write_state_message left out
write_state_message_nocheck(m, state, ok) ==
    persist_state([m EXCEPT !.out = Append(@, state), !.last = state], state, ok)

\* _write_state_message(state): skip a state equal to the last committed
\* one; else write the line (parent implementation), update the tracking,
\* persist.
write_state_message(m, state, ok) ==
    IF state = m.last THEN m
    ELSE persist_state([m EXCEPT !.out = Append(@, state), !.last = state],
                       state, ok)

\* a plausible slip: the call of _write_state_message left out, the state
\* persisted with no line written
record_state_after_commit_no_write(m, ok1, ok2) ==
    IF ~Truthy(latest_state) THEN m
    ELSE IF m.last = latest_state THEN m
    ELSE [persist_state(m, latest_state, ok2) EXCEPT !.last = latest_state]

\* record_state_after_commit(stream_name): nothing for a falsy latest
\* state or one equal to the last committed; else emit through the
\* overridden _write_state_message, persist, and track it.
record_state_after_commit(m, ok1, ok2) ==
    IF ~Truthy(latest_state) THEN m
    ELSE IF m.last = latest_state THEN m
    ELSE LET m1 == write_state_message(m, latest_state, ok1)
             m2 == persist_state(m1, latest_state, ok2)
         IN  [m2 EXCEPT !.last = latest_state]

SetManager(m) ==
    /\ stdout' = m.out
    /\ last_committed_state' = m.last
    /\ state_file' = m.file

(***************************************************************************)
(* Construction: Target.__init__ of the SDK sets _latest_state (None or    *)
(* {} depending on the SDK release), then _last_committed_state = None     *)
(* and _load_persisted_state().                                            *)
(***************************************************************************)
\* a plausible slip: the loaded state tracked but not written out
load_persisted_state_silent(m, readable, ok) ==
    IF ~state_persist_enabled THEN m
    ELSE IF m.file = <<>> THEN m
    ELSE IF ~readable THEN m
    ELSE IF ~Truthy(m.file[1]) THEN m
    ELSE [m EXCEPT !.last = m.file[1]]

\* _load_persisted_state(): readable = FALSE is an open/json.load failure
load_persisted_state(m, readable, ok) ==
    IF ~state_persist_enabled THEN m
    ELSE IF m.file = <<>> THEN m
    ELSE IF ~readable THEN m
    ELSE IF ~Truthy(m.file[1]) THEN m
    ELSE [write_state_message(m, m.file[1], ok) EXCEPT !.last = m.file[1]]

\* the except branch of _load_persisted_state is taken: the file exists and
\* open / json.load raised
load_failed(m, readable) ==
    state_persist_enabled /\ m.file # <<>> /\ ~readable

\* a plausible slip: open / json.load outside the try block, so that a
\* read failure leaves the constructor as an exception
TargetInit_load_raises ==
    /\ phase = "new"
    /\ \E initial \in {None, EmptyState}, readable \in BOOLEAN, ok \in BOOLEAN :
          /\ latest_state' = initial
          /\ SetManager(load_persisted_state(
                 [Manager EXCEPT !.last = None], readable, ok))
          /\ load_warning' = load_failed(Manager, readable)
          /\ phase' = IF load_failed(Manager, readable)
                         THEN "failed" ELSE "running"
    /\ startup_out' = stdout'
    /\ UNCHANGED <<state_persist_enabled, pending, pos, latest_pos,
                   drain_error>>
    /\ UNCHANGED <<retryVars, persistVars, sideVars>>

TargetInit ==
    /\ phase = "new"
    /\ \E initial \in {None, EmptyState}, readable \in BOOLEAN, ok \in BOOLEAN :
          /\ latest_state' = initial
          /\ SetManager(load_persisted_state(
                 [Manager EXCEPT !.last = None], readable, ok))
          /\ load_warning' = load_failed(Manager, readable)
    /\ startup_out' = stdout'
    /\ phase' = "running"
    /\ UNCHANGED <<state_persist_enabled, pending, pos, latest_pos,
                   drain_error>>
    /\ UNCHANGED <<retryVars, persistVars, sideVars>>

(***************************************************************************)
(* Input stream.                                                           *)
(***************************************************************************)
\* a RECORD message for sink s: the record is buffered in the sink
ProcessRecord(s) ==
    /\ phase = "running"
    /\ pos < MaxInput
    /\ pos' = pos + 1
    /\ pending' = [pending EXCEPT ![s] = @ \cup {pos + 1}]
    /\ UNCHANGED <<phase, state_persist_enabled, state_file, latest_state,
                   last_committed_state, stdout, latest_pos, startup_out,
                   load_warning, drain_error>>
    /\ UNCHANGED <<retryVars, persistVars, sideVars>>

\* a plausible slip: the base class behaviour kept, the state written out
\* as soon as it is read
ProcessStateMessage_emits(state) ==
    /\ phase = "running"
    /\ pos < MaxInput
    /\ pos' = pos + 1
    /\ IF latest_state = state
         THEN UNCHANGED <<latest_state, latest_pos, stdout,
                          last_committed_state, state_file>>
         ELSE /\ latest_state' = state
              /\ latest_pos' = pos + 1
              /\ SetManager(write_state_message(Manager, state, TRUE))
    /\ UNCHANGED <<phase, state_persist_enabled, pending, startup_out,
                   load_warning, drain_error>>
    /\ UNCHANGED <<retryVars, persistVars, sideVars>>

\* a plausible slip: the new state compared with _last_committed_state, so
\* that a STATE equal to the last committed one is dropped
ProcessStateMessage_vs_committed(state) ==
    /\ phase = "running"
    /\ pos < MaxInput
    /\ pos' = pos + 1
    /\ IF last_committed_state = state
         THEN UNCHANGED <<latest_state, latest_pos>>
         ELSE /\ latest_state' = state
              /\ latest_pos' = pos + 1
    /\ UNCHANGED <<phase, state_persist_enabled, state_file,
                   last_committed_state, stdout, pending, startup_out,
                   load_warning, drain_error>>
    /\ UNCHANGED <<retryVars, persistVars, sideVars>>

\* _process_state_message(message_dict): cache the state, emit nothing
ProcessStateMessage(state) ==
    /\ phase = "running"
    /\ pos < MaxInput
    /\ pos' = pos + 1
    /\ IF latest_state = state
         THEN UNCHANGED <<latest_state, latest_pos>>
         ELSE /\ latest_state' = state
              /\ latest_pos' = pos + 1
    /\ UNCHANGED <<phase, state_persist_enabled, state_file,
                   last_committed_state, stdout, pending, startup_out,
                   load_warning, drain_error>>
    /\ UNCHANGED <<retryVars, persistVars, sideVars>>

(***************************************************************************)
(* drain_one(sink): super().drain_one(sink) commits the sink's batch       *)
(* through the retry engine and returns, or raises the engine's terminal   *)
(* error; only after it returned is record_state_after_commit called.      *)
(***************************************************************************)
DrainErrors == {"RetriesExhausted", "Fatal"}

\* a plausible slip: the notification placed in a `finally`
drain_one_finally(s, error, ok1, ok2) ==
    /\ phase = "running"
    /\ error # "" => pending[s] # {}
    /\ SetManager(record_state_after_commit(Manager, ok1, ok2))
    /\ IF error = ""
         THEN /\ pending' = [pending EXCEPT ![s] = {}]
              /\ UNCHANGED <<phase, drain_error>>
         ELSE /\ phase' = "failed"
              /\ drain_error' = error
              /\ UNCHANGED pending
    /\ UNCHANGED <<state_persist_enabled, latest_state, pos, latest_pos,
                   startup_out, load_warning>>
    /\ UNCHANGED <<retryVars, persistVars, sideVars>>

\* a plausible slip: _persist_state without its try / except, so that a
\* failed write inside _write_state_message leaves drain_one as an exception
drain_one_persist_raises(s, error, ok1, ok2) ==
    /\ phase = "running"
    /\ error # "" => pending[s] # {}
    /\ IF error # ""
         THEN /\ phase' = "failed"
              /\ drain_error' = error
              /\ UNCHANGED <<pending, stdout, last_committed_state,
                             state_file>>
         ELSE /\ pending' = [pending EXCEPT ![s] = {}]
              /\ IF /\ state_persist_enabled
                    /\ ~ok1
                    /\ Truthy(latest_state)
                    /\ latest_state # last_committed_state
                   THEN /\ SetManager(write_state_message(Manager,
                                          latest_state, FALSE))
                        /\ phase' = "failed"
                        /\ drain_error' = "PersistError"
                   ELSE /\ SetManager(record_state_after_commit(Manager,
                                          ok1, ok2))
                        /\ UNCHANGED <<phase, drain_error>>
    /\ UNCHANGED <<state_persist_enabled, latest_state, pos, latest_pos,
                   startup_out, load_warning>>
    /\ UNCHANGED <<retryVars, persistVars, sideVars>>

drain_one(s, error, ok1, ok2) ==
    /\ phase = "running"
    /\ error # "" => pending[s] # {}
    /\ IF error = ""
         THEN /\ pending' = [pending EXCEPT ![s] = {}]
              /\ SetManager(record_state_after_commit(Manager, ok1, ok2))
              /\ UNCHANGED <<phase, drain_error>>
         ELSE /\ phase' = "failed"
              /\ drain_error' = error
              /\ UNCHANGED <<pending, stdout, last_committed_state,
                             state_file>>
    /\ UNCHANGED <<state_persist_enabled, latest_state, pos, latest_pos,
                   startup_out, load_warning>>
    /\ UNCHANGED <<retryVars, persistVars, sideVars>>

DrainOneOk ==
    \E s \in Sinks, ok1 \in BOOLEAN, ok2 \in BOOLEAN : drain_one(s, "", ok1, ok2)

DrainOneFail ==
    \E s \in Sinks, error \in DrainErrors : drain_one(s, error, TRUE, TRUE)

\* drain_all of the SDK, after every sink was drained: the fallback
\* _write_state_message(state) with its copy of _latest_state
FallbackEmit ==
    /\ phase = "running"
    /\ \A s \in Sinks : pending[s] = {}
    /\ \E ok \in BOOLEAN :
          SetManager(write_state_message(Manager, latest_state, ok))
    /\ UNCHANGED <<phase, state_persist_enabled, latest_state, pending,
                   pos, latest_pos, startup_out, load_warning,
                   drain_error>>
    /\ UNCHANGED <<retryVars, persistVars, sideVars>>

\* no call of _persist_state in progress
PersistIdle ==
    /\ ppc = "idle"
    /\ persist_arg = <<>>
    /\ tmp_file = <<>>
    /\ file_before = <<>>

\* no checkpoint value was held by _latest_state yet
NotObserved == last_seen = [v \in StateValues |-> None]

\* the state of the target before construction
TargetNew ==
    /\ phase = "new"
    /\ state_persist_enabled \in BOOLEAN
    /\ state_file \in FileContents
    /\ latest_state = None
    /\ last_committed_state = None
    /\ stdout = <<>>
    /\ pending = [s \in Sinks |-> {}]
    /\ pos = 0
    /\ latest_pos = 0
    /\ startup_out = <<>>
    /\ load_warning = FALSE
    /\ drain_error = ""

NextTarget ==
    \/ TargetInit /\ UNCHANGED observedVars
    \/ \E s \in Sinks : ProcessRecord(s) /\ UNCHANGED observedVars
    \/ \E state \in Checkpoints :
          ProcessStateMessage(state) /\ UNCHANGED observedVars
    \/ DrainOneOk /\ UNCHANGED observedVars
    \/ DrainOneFail /\ UNCHANGED observedVars
    \/ FallbackEmit /\ UNCHANGED observedVars

\* the calls that reach the checkpoint manager (construction, observe,
\* commit-success notification, fallback emit), with the observations of
\* the process recorded: the value the constructor assigned to
\* _latest_state, and for every STATE message (assigned or found equal to
\* _latest_state) its input position.  None of these calls reads the
\* sinks' buffers, so the input is taken to carry STATE messages only.
NextObserved ==
    \/ /\ TargetInit
       /\ last_seen' = [v \in StateValues |->
                            IF v = latest_state' THEN 0 ELSE None]
    \/ \E state \in Checkpoints :
          /\ ProcessStateMessage(state)
          /\ last_seen' = [last_seen EXCEPT ![state] = pos + 1]
    \/ DrainOneOk /\ UNCHANGED observedVars
    \/ FallbackEmit /\ UNCHANGED observedVars

(***************************************************************************)
(* record_state_after_commit statement by statement, run by the threads    *)
(* that drain the sinks: each thread has returned from                     *)
(* super().drain_one(sink) and reads and writes the fields of the one      *)
(* target.  No statement of the method takes a lock.                       *)
(***************************************************************************)
NumWorkers == 2

Workers == 1..NumWorkers

NoWorker == [pc |-> "idle", state |-> None]

WorkersIdle == workers = [w \in Workers |-> NoWorker]

WorkerSteps ==
    <<phase, state_persist_enabled, latest_state, pending, pos, latest_pos,
      startup_out, load_warning, drain_error, retryVars, persistVars,
      observedVars, classifyVars, lockVars>>

\* record_state_after_commit is entered: `if not self._latest_state: return`
RecordEnter(w) ==
    /\ phase = "running"
    /\ workers[w].pc = "idle"
    /\ Truthy(latest_state)
    /\ workers' = [workers EXCEPT ![w].pc = "compare"]
    /\ UNCHANGED <<stdout, last_committed_state, state_file, WorkerSteps>>

\* `if self._last_committed_state == self._latest_state: return`, else
\* self._write_state_message(self._latest_state) is called
RecordCompare(w) ==
    /\ workers[w].pc = "compare"
    /\ workers' = [workers EXCEPT ![w] =
          IF last_committed_state = latest_state THEN NoWorker
          ELSE [pc |-> "write_compare", state |-> latest_state]]
    /\ UNCHANGED <<stdout, last_committed_state, state_file, WorkerSteps>>

\* _write_state_message: `if state == self._last_committed_state: return`
WriteCompare(w) ==
    /\ workers[w].pc = "write_compare"
    /\ workers' = [workers EXCEPT ![w].pc =
          IF workers[w].state = last_committed_state
            THEN "persist" ELSE "write"]
    /\ UNCHANGED <<stdout, last_committed_state, state_file, WorkerSteps>>

\* super()._write_state_message(state)
WriteOut(w) ==
    /\ workers[w].pc = "write"
    /\ stdout' = Append(stdout, workers[w].state)
    /\ workers' = [workers EXCEPT ![w].pc = "write_track"]
    /\ UNCHANGED <<last_committed_state, state_file, WorkerSteps>>

\* self._last_committed_state = state
WriteTrack(w) ==
    /\ workers[w].pc = "write_track"
    /\ last_committed_state' = workers[w].state
    /\ workers' = [workers EXCEPT ![w].pc = "write_persist"]
    /\ UNCHANGED <<stdout, state_file, WorkerSteps>>

\* self._persist_state(state), the last statement of _write_state_message
WritePersist(w) ==
    /\ workers[w].pc = "write_persist"
    /\ \E ok \in BOOLEAN :
          state_file' = persist_state(Manager, workers[w].state, ok).file
    /\ workers' = [workers EXCEPT ![w].pc = "persist"]
    /\ UNCHANGED <<stdout, last_committed_state, WorkerSteps>>

\* self._persist_state(self._latest_state)
RecordPersist(w) ==
    /\ workers[w].pc = "persist"
    /\ \E ok \in BOOLEAN :
          state_file' = persist_state(Manager, latest_state, ok).file
    /\ workers' = [workers EXCEPT ![w].pc = "track"]
    /\ UNCHANGED <<stdout, last_committed_state, WorkerSteps>>

\* self._last_committed_state = self._latest_state, and the method returns
RecordTrack(w) ==
    /\ workers[w].pc = "track"
    /\ last_committed_state' = latest_state
    /\ workers' = [workers EXCEPT ![w] = NoWorker]
    /\ UNCHANGED <<stdout, state_file, WorkerSteps>>

\* the input is read between two drains, not while the sinks are drained
NextWorkers ==
    \/ TargetInit /\ UNCHANGED observedVars
    \/ \E state \in Checkpoints :
          /\ WorkersIdle
          /\ ProcessStateMessage(state)
          /\ UNCHANGED observedVars
    \/ \E w \in Workers :
          \/ RecordEnter(w)
          \/ RecordCompare(w)
          \/ WriteCompare(w)
          \/ WriteOut(w)
          \/ WriteTrack(w)
          \/ WritePersist(w)
          \/ RecordPersist(w)
          \/ RecordTrack(w)

(***************************************************************************)
(* _persist_state statement by statement, for what the checkpoint path     *)
(* holds while a write is in progress and after the process was killed in  *)
(* the middle of one.  The JSON text of a state is written to the          *)
(* temporary file in TextChunks pieces: <<v, k>> is a file that holds the   *)
(* first k pieces of the text of v (k < TextChunks), <<v>> the whole text.  *)
(***************************************************************************)
TextChunks == 2

PersistSteps == {"makedirs", "create", "dump", "replace"}

\* _persist_state(state) is entered; it returns at once when persistence is
\* disabled
PersistCall(state) ==
    /\ phase = "running"
    /\ ppc = "idle"
    /\ persist_arg' = <<state>>
    /\ file_before' = state_file
    /\ tmp_file' = <<>>
    /\ ppc' = IF state_persist_enabled THEN "makedirs" ELSE "idle"
    /\ UNCHANGED <<targetVars, retryVars, observedVars, sideVars>>

\* os.makedirs(dir_name, exist_ok=True)
PersistMakedirs ==
    /\ phase = "running"
    /\ ppc = "makedirs"
    /\ ppc' = "create"
    /\ UNCHANGED <<persist_arg, tmp_file, file_before>>
    /\ UNCHANGED <<targetVars, retryVars, observedVars, sideVars>>

\* tempfile.NamedTemporaryFile(mode="w", dir=dir_name, delete=False): a new
\* empty file beside the checkpoint file
PersistCreateTemp ==
    /\ phase = "running"
    /\ ppc = "create"
    /\ tmp_file' = <<persist_arg[1], 0>>
    /\ ppc' = "dump"
    /\ UNCHANGED <<persist_arg, file_before>>
    /\ UNCHANGED <<targetVars, retryVars, observedVars, sideVars>>

\* the content of a file that held <<v, k>> after one more piece
NextChunk(content) ==
    IF content[2] + 1 < TextChunks
      THEN <<content[1], content[2] + 1>>
      ELSE <<content[1]>>

\* a plausible slip: the text written to the checkpoint path itself
PersistDump_in_place ==
    /\ phase = "running"
    /\ ppc = "dump"
    /\ tmp_file' = NextChunk(tmp_file)
    /\ state_file' = NextChunk(tmp_file)
    /\ ppc' = IF Len(NextChunk(tmp_file)) = 1 THEN "replace" ELSE "dump"
    /\ UNCHANGED <<persist_arg, file_before>>
    /\ UNCHANGED <<phase, state_persist_enabled, latest_state,
                   last_committed_state, stdout, pending, pos, latest_pos,
                   startup_out, load_warning, drain_error>>
    /\ UNCHANGED <<retryVars, observedVars, sideVars>>

\* json.dump(state, tmp_file, indent=2) and the close of the `with` block:
\* the text reaches the temporary file piece by piece
PersistDump ==
    /\ phase = "running"
    /\ ppc = "dump"
    /\ tmp_file' = NextChunk(tmp_file)
    /\ ppc' = IF Len(NextChunk(tmp_file)) = 1 THEN "replace" ELSE "dump"
    /\ UNCHANGED <<persist_arg, file_before>>
    /\ UNCHANGED <<targetVars, retryVars, observedVars, sideVars>>

\* os.replace(tmp_name, state_path): one rename installs the whole text
PersistReplace ==
    /\ phase = "running"
    /\ ppc = "replace"
    /\ state_file' = tmp_file
    /\ tmp_file' = <<>>
    /\ ppc' = "idle"
    /\ UNCHANGED <<persist_arg, file_before>>
    /\ UNCHANGED <<phase, state_persist_enabled, latest_state,
                   last_committed_state, stdout, pending, pos, latest_pos,
                   startup_out, load_warning, drain_error>>
    /\ UNCHANGED <<retryVars, observedVars, sideVars>>

\* a statement of the try block raises: the except branch logs a warning
\* and _persist_state returns; a temporary file already created stays
PersistFails ==
    /\ phase = "running"
    /\ ppc \in PersistSteps
    /\ ppc' = "idle"
    /\ UNCHANGED <<persist_arg, tmp_file, file_before>>
    /\ UNCHANGED <<targetVars, retryVars, observedVars, sideVars>>

\* the process is killed while _persist_state runs: the files stay as they
\* are
Kill ==
    /\ phase = "running"
    /\ ppc \in PersistSteps
    /\ phase' = "killed"
    /\ UNCHANGED <<state_persist_enabled, state_file, latest_state,
                   last_committed_state, stdout, pending, pos, latest_pos,
                   startup_out, load_warning, drain_error>>
    /\ UNCHANGED <<retryVars, persistVars, observedVars, sideVars>>

NextPersist ==
    \/ TargetInit /\ UNCHANGED observedVars
    \/ \E state \in StateValues : PersistCall(state)
    \/ PersistMakedirs
    \/ PersistCreateTemp
    \/ PersistDump
    \/ PersistReplace
    \/ PersistFails
    \/ Kill

(***************************************************************************)
(* retry.py: the commit retry engine.                                      *)
(*                                                                         *)
(* A text (a message, a class name, a searched token) is the sequence of   *)
(* its characters, so that str.lower() and the substring test `a in b`     *)
(* are computed on the characters.  An exception is a record of its class  *)
(* name, its message, its status_code attribute (None when absent), its    *)
(* response attribute (<<>> when absent, else <<status_code>>) and the     *)
(* exceptions reached from it by `__cause__ or __context__`.               *)
(***************************************************************************)
UpperCase ==
    <<"A", "B", "C", "D", "E", "F", "G", "H", "I", "J", "K", "L", "M", "N",
      "O", "P", "Q", "R", "S", "T", "U", "V", "W", "X", "Y", "Z">>

LowerCase ==
    <<"a", "b", "c", "d", "e", "f", "g", "h", "i", "j", "k", "l", "m", "n",
      "o", "p", "q", "r", "s", "t", "u", "v", "w", "x", "y", "z">>

\* str.lower()
Lower(text) ==
    [i \in 1..Len(text) |->
        IF \E k \in 1..26 : UpperCase[k] = text[i]
          THEN LowerCase[CHOOSE k \in 1..26 : UpperCase[k] = text[i]]
          ELSE text[i]]

\* token in text
Occurs(token, text) ==
    \E i \in 0..(Len(text) - Len(token)) :
        \A j \in 1..Len(token) : text[i + j] = token[j]

\* class names
Name ==
    [CommitFailedException |->
        <<"C", "o", "m", "m", "i", "t", "F", "a", "i", "l", "e", "d",
        "E", "x", "c", "e", "p", "t", "i", "o", "n">>,
     CommitStateUnknownException |->
        <<"C", "o", "m", "m", "i", "t", "S", "t", "a", "t", "e", "U",
        "n", "k", "n", "o", "w", "n", "E", "x", "c", "e", "p", "t", "i",
        "o", "n">>,
     CommitStateUnknownError |->
        <<"C", "o", "m", "m", "i", "t", "S", "t", "a", "t", "e", "U",
        "n", "k", "n", "o", "w", "n", "E", "r", "r", "o", "r">>,
     ReadTimeout |->
        <<"R", "e", "a", "d", "T", "i", "m", "e", "o", "u", "t">>,
     ValueError |->
        <<"V", "a", "l", "u", "e", "E", "r", "r", "o", "r">>,
     RuntimeError |->
        <<"R", "u", "n", "t", "i", "m", "e", "E", "r", "r", "o", "r">>,
     Timeout |->
        <<"T", "i", "m", "e", "o", "u", "t">>,
     ConnectionError |->
        <<"C", "o", "n", "n", "e", "c", "t", "i", "o", "n", "E", "r",
        "r", "o", "r">>,
     ConnectionResetError |->
        <<"C", "o", "n", "n", "e", "c", "t", "i", "o", "n", "R", "e",
        "s", "e", "t", "E", "r", "r", "o", "r">>,
     ConnectTimeout |->
        <<"C", "o", "n", "n", "e", "c", "t", "T", "i", "m", "e", "o",
        "u", "t">>,
     ChunkedEncodingError |->
        <<"C", "h", "u", "n", "k", "e", "d", "E", "n", "c", "o", "d",
        "i", "n", "g", "E", "r", "r", "o", "r">>,
     ProtocolError |->
        <<"P", "r", "o", "t", "o", "c", "o", "l", "E", "r", "r", "o", "r">>,
     SSLError |->
        <<"S", "S", "L", "E", "r", "r", "o", "r">>]

\* the literals the classifier searches for or compares with
Tok ==
    [branch |->
        <<"b", "r", "a", "n", "c", "h">>,
     has_changed |->
        <<"h", "a", "s", " ", "c", "h", "a", "n", "g", "e", "d">>,
     was_created_concurrently |->
        <<"w", "a", "s", " ", "c", "r", "e", "a", "t", "e", "d", " ",
        "c", "o", "n", "c", "u", "r", "r", "e", "n", "t", "l", "y">>,
     expected_id |->
        <<"e", "x", "p", "e", "c", "t", "e", "d", " ", "i", "d">>,
     snapshot |->
        <<"s", "n", "a", "p", "s", "h", "o", "t">>,
     expected_snapshot |->
        <<"e", "x", "p", "e", "c", "t", "e", "d", " ", "s", "n", "a",
        "p", "s", "h", "o", "t">>,
     reference_has_changed |->
        <<"r", "e", "f", "e", "r", "e", "n", "c", "e", " ", "h", "a",
        "s", " ", "c", "h", "a", "n", "g", "e", "d">>,
     requirement_failed |->
        <<"r", "e", "q", "u", "i", "r", "e", "m", "e", "n", "t", " ",
        "f", "a", "i", "l", "e", "d">>,
     ref |->
        <<"r", "e", "f">>,
     timed_out |->
        <<"t", "i", "m", "e", "d", " ", "o", "u", "t">>,
     connection_reset |->
        <<"c", "o", "n", "n", "e", "c", "t", "i", "o", "n", " ", "r",
        "e", "s", "e", "t">>,
     connection_aborted |->
        <<"c", "o", "n", "n", "e", "c", "t", "i", "o", "n", " ", "a",
        "b", "o", "r", "t", "e", "d">>,
     broken_pipe |->
        <<"b", "r", "o", "k", "e", "n", " ", "p", "i", "p", "e">>,
     commitfailedexception |->
        <<"c", "o", "m", "m", "i", "t", "f", "a", "i", "l", "e", "d",
        "e", "x", "c", "e", "p", "t", "i", "o", "n">>,
     commitstateunknownexception |->
        <<"c", "o", "m", "m", "i", "t", "s", "t", "a", "t", "e", "u",
        "n", "k", "n", "o", "w", "n", "e", "x", "c", "e", "p", "t", "i",
        "o", "n">>,
     commitstateunknownerror |->
        <<"c", "o", "m", "m", "i", "t", "s", "t", "a", "t", "e", "u",
        "n", "k", "n", "o", "w", "n", "e", "r", "r", "o", "r">>]

\* messages of the exceptions a commit raises in a run
Msg ==
    [conflict |->
        <<"R", "e", "q", "u", "i", "r", "e", "m", "e", "n", "t", " ",
        "f", "a", "i", "l", "e", "d", ":", " ", "b", "r", "a", "n", "c",
        "h", " ", "m", "a", "i", "n", " ", "h", "a", "s", " ", "c", "h",
        "a", "n", "g", "e", "d">>,
     validation |->
        <<"V", "a", "l", "i", "d", "a", "t", "i", "o", "n", " ", "f",
        "a", "i", "l", "e", "d">>,
     unknown |->
        <<"C", "o", "m", "m", "i", "t", " ", "s", "t", "a", "t", "e",
        " ", "u", "n", "k", "n", "o", "w", "n">>,
     read_timed_out |->
        <<"R", "e", "a", "d", " ", "t", "i", "m", "e", "d", " ", "o",
        "u", "t">>,
     bad_value |->
        <<"b", "a", "d", " ", "v", "a", "l", "u", "e">>]

Exc(cls, msg) ==
    [cls |-> cls, msg |-> msg, status_code |-> None, response |-> <<>>,
     chain |-> <<>>]

CommitFailed(msg) == Exc(Name.CommitFailedException, msg)

ConflictError == CommitFailed(Msg.conflict)

ValidationError == CommitFailed(Msg.validation)

StateUnknownError == Exc(Name.CommitStateUnknownException, Msg.unknown)

TransportError == Exc(Name.ReadTimeout, Msg.read_timed_out)

OtherError == Exc(Name.ValueError, Msg.bad_value)

Exceptions ==
    {ConflictError, ValidationError, StateUnknownError, TransportError,
     OtherError}


UNKNOWN_STATE_PATTERNS ==
    {<<"c", "o", "m", "m", "i", "t", " ", "s", "t", "a", "t", "e", " ",
     "u", "n", "k", "n", "o", "w", "n">>,
     <<"u", "n", "k", "n", "o", "w", "n", " ", "c", "o", "m", "m", "i",
     "t", " ", "s", "t", "a", "t", "e">>,
     <<"c", "o", "m", "m", "i", "t", "s", "t", "a", "t", "e", "u", "n",
     "k", "n", "o", "w", "n">>}


NETWORK_ERROR_NAMES ==
    {<<"t", "i", "m", "e", "o", "u", "t">>,
     <<"c", "o", "n", "n", "e", "c", "t", "i", "o", "n", "e", "r", "r",
     "o", "r">>,
     <<"c", "o", "n", "n", "e", "c", "t", "i", "o", "n", "r", "e", "s",
     "e", "t">>,
     <<"c", "o", "n", "n", "e", "c", "t", "t", "i", "m", "e", "o", "u",
     "t">>,
     <<"r", "e", "a", "d", "t", "i", "m", "e", "o", "u", "t">>,
     <<"c", "h", "u", "n", "k", "e", "d", "e", "n", "c", "o", "d", "i",
     "n", "g", "e", "r", "r", "o", "r">>,
     <<"p", "r", "o", "t", "o", "c", "o", "l", "e", "r", "r", "o", "r">>,
     <<"s", "s", "L", "E", "r", "r", "o", "r">>}

is_commit_failed_exception(exc) ==
    Lower(exc.cls) = Tok.commitfailedexception

is_commit_state_unknown_exception(exc) ==
    Lower(exc.cls) \in
        {Tok.commitstateunknownexception, Tok.commitstateunknownerror}

\* _exception_chain(exc): exc, then what `__cause__ or __context__` reaches
\* (a chain that loops is cut where it repeats, so it is a finite sequence)
exception_chain(exc) ==
    <<[cls |-> exc.cls, msg |-> exc.msg, status_code |-> exc.status_code,
       response |-> exc.response]>> \o exc.chain

ServerErrorCodes == {500, 502, 503, 504}

is_transport_or_server_error(exc) ==
    LET status_code ==
            IF exc.status_code = None /\ exc.response # <<>>
              THEN exc.response[1]
              ELSE exc.status_code
        chain == exception_chain(exc)
    IN  IF status_code \in ServerErrorCodes THEN TRUE
        ELSE \E i \in 1..Len(chain) :
                LET name == Lower(chain[i].cls)
                    message == Lower(chain[i].msg)
                IN  \/ \E token \in NETWORK_ERROR_NAMES : Occurs(token, name)
                    \/ Occurs(Tok.timed_out, message)
                    \/ Occurs(Tok.connection_reset, message)
                    \/ Occurs(Tok.connection_aborted, message)
                    \/ Occurs(Tok.broken_pipe, message)

\* a plausible slip: every commit-failed error taken for a conflict
is_retryable_commit_failed_any(exc) == is_commit_failed_exception(exc)

\* a plausible slip: the message searched without lower-casing it
is_retryable_commit_failed_cased(exc) ==
    LET message == exc.msg IN
    IF ~is_commit_failed_exception(exc) THEN FALSE
    ELSE IF message = <<>> THEN FALSE
    ELSE IF Occurs(Tok.branch, message)
            /\ (Occurs(Tok.has_changed, message)
                \/ Occurs(Tok.was_created_concurrently, message)) THEN TRUE
    ELSE IF Occurs(Tok.expected_id, message)
            /\ (Occurs(Tok.branch, message)
                \/ Occurs(Tok.snapshot, message)) THEN TRUE
    ELSE IF Occurs(Tok.expected_snapshot, message) THEN TRUE
    ELSE IF Occurs(Tok.reference_has_changed, message) THEN TRUE
    ELSE IF Occurs(Tok.requirement_failed, message)
            /\ (Occurs(Tok.branch, message)
                \/ Occurs(Tok.ref, message)) THEN TRUE
    ELSE FALSE

is_retryable_commit_failed(exc) ==
    LET message == Lower(exc.msg) IN
    IF ~is_commit_failed_exception(exc) THEN FALSE
    ELSE IF message = <<>> THEN FALSE
    ELSE IF Occurs(Tok.branch, message)
            /\ (Occurs(Tok.has_changed, message)
                \/ Occurs(Tok.was_created_concurrently, message)) THEN TRUE
    ELSE IF Occurs(Tok.expected_id, message)
            /\ (Occurs(Tok.branch, message)
                \/ Occurs(Tok.snapshot, message)) THEN TRUE
    ELSE IF Occurs(Tok.expected_snapshot, message) THEN TRUE
    ELSE IF Occurs(Tok.reference_has_changed, message) THEN TRUE
    ELSE IF Occurs(Tok.requirement_failed, message)
            /\ (Occurs(Tok.branch, message)
                \/ Occurs(Tok.ref, message)) THEN TRUE
    ELSE FALSE

\* a plausible slip: the commit-failed kind not excluded first
is_unknown_commit_state_no_precedence(exc) ==
    IF is_commit_state_unknown_exception(exc) THEN TRUE
    ELSE IF \E token \in UNKNOWN_STATE_PATTERNS :
               Occurs(token, Lower(exc.msg)) THEN TRUE
    ELSE is_transport_or_server_error(exc)

is_unknown_commit_state(exc) ==
    IF is_commit_failed_exception(exc) THEN FALSE
    ELSE IF is_commit_state_unknown_exception(exc) THEN TRUE
    ELSE IF \E token \in UNKNOWN_STATE_PATTERNS :
               Occurs(token, Lower(exc.msg)) THEN TRUE
    ELSE is_transport_or_server_error(exc)

\* the branch of the except block an exception takes
Classify(exc) ==
    IF is_retryable_commit_failed(exc) THEN "conflict"
    ELSE IF is_unknown_commit_state(exc) THEN "unknown"
    ELSE "fatal"

(***************************************************************************)
(* The classifier predicates applied to one exception.  The exceptions     *)
(* handed to them: a class, a message made of up to MaxPhrases phrases     *)
(* separated by a blank, a status_code, a response, a chained exception.   *)
(***************************************************************************)
MaxPhrases == 2


Phrases ==
    {<<"B", "r", "a", "n", "c", "h", " ", "m", "a", "i", "n">>,
     <<"h", "a", "s", " ", "c", "h", "a", "n", "g", "e", "d">>,
     <<"w", "a", "s", " ", "c", "r", "e", "a", "t", "e", "d", " ", "c",
     "o", "n", "c", "u", "r", "r", "e", "n", "t", "l", "y">>,
     <<"E", "x", "p", "e", "c", "t", "e", "d", " ", "i", "d">>,
     <<"s", "n", "a", "p", "s", "h", "o", "t">>,
     <<"E", "x", "p", "e", "c", "t", "e", "d">>,
     <<"r", "e", "f", "e", "r", "e", "n", "c", "e">>,
     <<"R", "e", "q", "u", "i", "r", "e", "m", "e", "n", "t", " ", "f",
     "a", "i", "l", "e", "d", ":">>,
     <<"V", "a", "l", "i", "d", "a", "t", "i", "o", "n", " ", "f", "a",
     "i", "l", "e", "d">>,
     <<"C", "o", "m", "m", "i", "t", " ", "s", "t", "a", "t", "e", " ",
     "u", "n", "k", "n", "o", "w", "n">>}

\* sep.join(ps)
RECURSIVE Join(_, _)
Join(sep, ps) ==
    IF ps = <<>> THEN <<>>
    ELSE IF Len(ps) = 1 THEN ps[1]
    ELSE ps[1] \o sep \o Join(sep, Tail(ps))

Messages ==
    {Join(<<" ">>, ps) : ps \in UNION {[1..n -> Phrases] : n \in 0..MaxPhrases}}

ErrorClasses ==
    {Name.CommitFailedException, Name.CommitStateUnknownException,
     Name.CommitStateUnknownError, Name.ReadTimeout, Name.ValueError}

StatusCodes == {None, 404, 503}

Responses == {<<>>, <<503>>}

Chains ==
    {<<>>,
     <<[cls |-> Name.ReadTimeout, msg |-> Msg.read_timed_out,
        status_code |-> None, response |-> <<>>]>>}

ErrorSpace ==
    [cls : ErrorClasses, msg : Messages, status_code : StatusCodes,
     response : Responses, chain : Chains]

\* exceptions of the transport: a class per network error name, a status
\* code on the exception, on its response (<<None>>: a response without
\* one) or on a chained exception or its response
NetworkClasses ==
    {Name.Timeout, Name.ConnectionError, Name.ConnectionResetError,
     Name.ConnectTimeout, Name.ReadTimeout, Name.ChunkedEncodingError,
     Name.ProtocolError, Name.SSLError}

TransportSpace ==
    [cls : NetworkClasses \cup {Name.ValueError, Name.CommitFailedException},
     msg : {Msg.bad_value},
     status_code : {None, 404} \cup ServerErrorCodes,
     response : {<<>>, <<None>>, <<404>>, <<503>>},
     chain : {<<>>} \cup
             {<<[cls |-> c, msg |-> Msg.bad_value, status_code |-> sc,
                 response |-> r]>> :
                c \in {Name.ValueError, Name.SSLError, Name.ConnectionError},
                sc \in {None, 503}, r \in {<<>>, <<502>>}}]

ClassifyIdle ==
    /\ caught = <<>>
    /\ verdict = <<>>

\* except Exception as exc: the two predicates are applied to exc
ClassifyError ==
    /\ caught # <<>>
    /\ verdict = <<>>
    /\ verdict' = <<[retryable |-> is_retryable_commit_failed(caught[1]),
                     unknown |-> is_unknown_commit_state(caught[1])]>>
    /\ UNCHANGED <<caught, targetVars, retryVars, persistVars, observedVars,
                   lockVars, workerVars>>

(***************************************************************************)
(* get_table_commit_lock and the threads that call it.  A thread calls     *)
(* get_table_commit_lock(table_id), takes the returned lock (`with lock:`) *)
(* and runs run_with_commit_retries inside: table_loader, commit_fn,       *)
(* status polls and sleeps, until the run returns or raises.               *)
(* A table_id is a tuple of texts or one text.                             *)
(***************************************************************************)
NumThreads == 2

MaxLocks == 3

Threads == 1..NumThreads

Locks == 1..MaxLocks

TableIds ==
    {[tuple |-> TRUE, parts |-> <<<<"d", "b">>, <<"t", "1">>>>],
     [tuple |-> FALSE, parts |-> <<<<"d", "b", ".", "t", "1">>>>],
     [tuple |-> TRUE, parts |-> <<<<"d", "b">>, <<"t", "2">>>>]}

\* key = ".".join(table_id) for a tuple, str(table_id) otherwise
Canonical(table_id) ==
    IF table_id.tuple THEN Join(<<".">>, table_id.parts)
    ELSE table_id.parts[1]

NoThread == [pc |-> "idle", table_id |-> <<>>, key |-> <<>>, lock |-> 0]

Unlocked == [thread |-> 0, count |-> 0]

LockIdle ==
    /\ registry = <<>>
    /\ guard = 0
    /\ owner = [l \in Locks |-> Unlocked]
    /\ locks_created = 0
    /\ threads = [t \in Threads |-> NoThread]
    /\ returned = {}

\* _TABLE_LOCKS.get(key): 0 stands for None
RegistryGet(key) ==
    IF \E i \in 1..Len(registry) : registry[i].key = key
      THEN registry[CHOOSE i \in 1..Len(registry) : registry[i].key = key].lock
      ELSE 0

\* _TABLE_LOCKS[key] = lock
RegistrySet(key, lock) ==
    IF \E i \in 1..Len(registry) : registry[i].key = key
      THEN [i \in 1..Len(registry) |->
              IF registry[i].key = key
                THEN [key |-> key, lock |-> lock] ELSE registry[i]]
      ELSE Append(registry, [key |-> key, lock |-> lock])

LockSteps ==
    <<targetVars, retryVars, persistVars, observedVars, classifyVars,
      workerVars>>

\* get_table_commit_lock(table_id): the key is computed
GetLock(t, table_id) ==
    /\ threads[t].pc = "idle"
    /\ threads' = [threads EXCEPT ![t] =
          [pc |-> "guard", table_id |-> <<table_id>>,
           key |-> Canonical(table_id), lock |-> 0]]
    /\ UNCHANGED <<registry, guard, owner, locks_created, returned, LockSteps>>

\* a plausible slip: the registry read and written without the guard
AcquireGuard_unguarded(t) ==
    /\ threads[t].pc = "guard"
    /\ threads' = [threads EXCEPT ![t].pc = "get"]
    /\ UNCHANGED <<registry, guard, owner, locks_created, returned, LockSteps>>

\* with _TABLE_LOCKS_GUARD: entered
AcquireGuard(t) ==
    /\ threads[t].pc = "guard"
    /\ guard = 0
    /\ guard' = t
    /\ threads' = [threads EXCEPT ![t].pc = "get"]
    /\ UNCHANGED <<registry, owner, locks_created, returned, LockSteps>>

\* lock = _TABLE_LOCKS.get(key); if lock is None
Lookup(t) ==
    /\ threads[t].pc = "get"
    /\ threads' = [threads EXCEPT
          ![t].lock = RegistryGet(threads[t].key),
          ![t].pc = IF RegistryGet(threads[t].key) = 0
                      THEN "create" ELSE "return"]
    /\ UNCHANGED <<registry, guard, owner, locks_created, returned, LockSteps>>

\* lock = threading.RLock()
Create(t) ==
    /\ threads[t].pc = "create"
    /\ locks_created < MaxLocks
    /\ locks_created' = locks_created + 1
    /\ threads' = [threads EXCEPT ![t].lock = locks_created + 1,
                                  ![t].pc = "store"]
    /\ UNCHANGED <<registry, guard, owner, returned, LockSteps>>

\* a plausible slip: the new lock not stored
Store_forgotten(t) ==
    /\ threads[t].pc = "store"
    /\ threads' = [threads EXCEPT ![t].pc = "return"]
    /\ UNCHANGED <<registry, guard, owner, locks_created, returned, LockSteps>>

\* _TABLE_LOCKS[key] = lock
Store(t) ==
    /\ threads[t].pc = "store"
    /\ registry' = RegistrySet(threads[t].key, threads[t].lock)
    /\ threads' = [threads EXCEPT ![t].pc = "return"]
    /\ UNCHANGED <<guard, owner, locks_created, returned, LockSteps>>

\* return lock: the guard is left
Return(t) ==
    /\ threads[t].pc = "return"
    /\ guard' = IF guard = t THEN 0 ELSE guard
    /\ returned' = returned \cup {<<threads[t].table_id[1], threads[t].lock>>}
    /\ threads' = [threads EXCEPT ![t].pc = "acquire"]
    /\ UNCHANGED <<registry, owner, locks_created, LockSteps>>

\* a plausible slip: the lock entered without waiting for its owner
Acquire_no_wait(t) ==
    /\ threads[t].pc = "acquire"
    /\ owner' = [owner EXCEPT ![threads[t].lock] =
          [thread |-> t, count |-> 1]]
    /\ threads' = [threads EXCEPT ![t].pc = "load"]
    /\ UNCHANGED <<registry, guard, locks_created, returned, LockSteps>>

\* with lock: RLock.acquire() blocks while another thread owns the lock
Acquire(t) ==
    /\ threads[t].pc = "acquire"
    /\ owner[threads[t].lock].thread \in {0, t}
    /\ owner' = [owner EXCEPT ![threads[t].lock] =
          [thread |-> t, count |-> @.count + 1]]
    /\ threads' = [threads EXCEPT ![t].pc = "load"]
    /\ UNCHANGED <<registry, guard, locks_created, returned, LockSteps>>

\* table = table_loader()
LockedLoad(t) ==
    /\ threads[t].pc = "load"
    /\ threads' = [threads EXCEPT ![t].pc = "commit"]
    /\ UNCHANGED <<registry, guard, owner, locks_created, returned, LockSteps>>

\* commit_fn(table) returns, or raises; the exception ends the run, or is
\* followed by status polls, or by a backoff sleep
LockedCommit(t, next) ==
    /\ threads[t].pc = "commit"
    /\ threads' = [threads EXCEPT ![t].pc = next]
    /\ UNCHANGED <<registry, guard, owner, locks_created, returned, LockSteps>>

\* _run_status_checks: a poll with its sleep; the polls end the run or
\* leave the commit to be retried
LockedPoll(t, next) ==
    /\ threads[t].pc = "poll"
    /\ threads' = [threads EXCEPT ![t].pc = next]
    /\ UNCHANGED <<registry, guard, owner, locks_created, returned, LockSteps>>

\* sleep_fn(delay_ms / 1000.0), then the next attempt
LockedSleep(t) ==
    /\ threads[t].pc = "sleep"
    /\ threads' = [threads EXCEPT ![t].pc = "load"]
    /\ UNCHANGED <<registry, guard, owner, locks_created, returned, LockSteps>>

\* the `with lock:` block is left, by return or by exception
Release(t) ==
    /\ threads[t].pc = "release"
    /\ owner' = [owner EXCEPT ![threads[t].lock] =
          IF @.count = 1 THEN Unlocked
          ELSE [thread |-> @.thread, count |-> @.count - 1]]
    /\ threads' = [threads EXCEPT ![t] = NoThread]
    /\ UNCHANGED <<registry, guard, locks_created, returned, LockSteps>>

(***************************************************************************)
(* CommitRetryConfig and the backoff.                                      *)
(***************************************************************************)
Max(a, b) == IF a >= b THEN a ELSE b

Min(a, b) == IF a <= b THEN a ELSE b

RECURSIVE Pow(_, _)
Pow(b, e) == IF e = 0 THEN 1 ELSE b * Pow(b, e - 1)

\* a plausible slip: the override taken whenever it is set
max_attempts_override_wins(c) ==
    LET attempts == Max(1, c.num_retries + 1) IN
    IF c.max_attempts_override # None
      THEN Max(1, c.max_attempts_override)
      ELSE attempts

\* CommitRetryConfig.max_attempts()
max_attempts(c) ==
    LET attempts == Max(1, c.num_retries + 1) IN
    IF c.max_attempts_override # None
      THEN Min(attempts, Max(1, c.max_attempts_override))
      ELSE attempts

\* compute_backoff(attempt, min_wait_ms, max_wait_ms, multiplier, jitter),
\* in ms (the code returns delay_ms / 1000.0 seconds and time.sleep takes
\* seconds).  jitter is in percent and u, the draw of
\* random.uniform(-jitter, jitter), too.
compute_backoff(att, min_wait_ms, max_wait_ms, multiplier, jitter, u) ==
    LET a == Max(1, att)
        base_ms == Min(min_wait_ms * Pow(multiplier, a - 1), max_wait_ms)
        jitter_factor == IF jitter # 0 THEN 100 + u ELSE 100
    IN  Max(0, (base_ms * jitter_factor) \div 100)

\* the draws of random.uniform(-jitter, jitter) the model takes
JitterDraws(jitter) == {-jitter, 0, jitter}

\* a plausible slip: > for >= in the attempt test
retry_budget_exhausted_strict(att, elapsed_ms, c) ==
    \/ att > max_attempts(c)
    \/ elapsed_ms >= c.total_timeout_ms

\* a plausible slip: the budget taken to end one attempt early
retry_budget_exhausted_early(att, elapsed_ms, c) ==
    \/ att + 1 >= max_attempts(c)
    \/ elapsed_ms >= c.total_timeout_ms

\* a plausible slip: the elapsed time left out of the budget
retry_budget_exhausted_attempts_only(att, elapsed_ms, c) ==
    att >= max_attempts(c)

\* _retry_budget_exhausted(attempt, start, config)
retry_budget_exhausted(att, elapsed_ms, c) ==
    IF att >= max_attempts(c) THEN TRUE
    ELSE elapsed_ms >= c.total_timeout_ms

\* _retry_budget_error(...): a RuntimeError raised `from exc`
retry_budget_error(att, elapsed_ms, exc) ==
    [cls |-> Name.RuntimeError, cause |-> exc, attempts |-> att,
     elapsed |-> elapsed_ms]

(***************************************************************************)
(* One run of run_with_commit_retries.                                     *)
(***************************************************************************)
\* bounds of the run's inputs
MaxRetries == 2

MaxOverride == 2

MaxStatusRetries == 2

MinWaitMs == 1

MaxWaitMs == 3

StatusMinWaitMs == 2

StatusMaxWaitMs == 2

Multiplier == 2

\* a total_timeout_ms the run can reach, and one it cannot
TightTimeoutMs == 3

AmpleTimeoutMs == 50

\* duration of a slow commit_fn / status_check_fn call
SlowCallMs == 2

\* the clock is kept up to MaxClock (beyond TightTimeoutMs) and then stays
MaxClock == 12

Configs ==
    [num_retries : 0..MaxRetries,
     min_wait_ms : {MinWaitMs},
     max_wait_ms : {MaxWaitMs},
     total_timeout_ms : {TightTimeoutMs, AmpleTimeoutMs},
     backoff_multiplier : {Multiplier},
     jitter : {0},
     status_check_num_retries : 0..MaxStatusRetries,
     status_check_min_wait_ms : {StatusMinWaitMs},
     status_check_max_wait_ms : {StatusMaxWaitMs},
     max_attempts_override : {None} \cup 1..MaxOverride]

CallDurations == {0, SlowCallMs}

Tick(t, d) == Min(t + d, MaxClock)

\* the value commit_fn returns on the attempt numbered att: a value other
\* than None that tells the attempts apart
CommitValue(att) == att

Last(seq) == seq[Len(seq)]

\* the polls of the current attempt are recorded in its history entry
AddPoll(h, answer) ==
    [h EXCEPT ![Len(h)].polls = Append(@, answer)]

\* a plausible slip: > for >= in the test that ends the polls
last_status_check_off(poll, c) == poll > c.status_check_num_retries

\* `if attempt >= config.status_check_num_retries: break`
last_status_check(poll, c) == poll >= c.status_check_num_retries

\* a plausible slip: the table loaded before the loop, once, and passed
\* to every attempt
LoadTable_once ==
    /\ pc = "load"
    /\ attempt' = attempt + 1
    /\ \E failure \in {<<>>} \cup {<<e>> : e \in Exceptions} :
          IF attempt > 0
            THEN /\ pc' = "commit"
                 /\ UNCHANGED <<loads, table, raised>>
            ELSE /\ loads' = loads + 1
                 /\ IF failure = <<>>
                      THEN pc' = "commit" /\ table' = loads + 1
                           /\ raised' = raised
                      ELSE pc' = "raised" /\ table' = table
                           /\ raised' = failure
    /\ UNCHANGED <<config, has_status_check_fn, now, uses, commits, sleeps,
                   history, last_exc, result>>
    /\ UNCHANGED <<targetVars, persistVars, observedVars, sideVars>>

\* table = table_loader() at the top of the loop; an exception of the
\* loader is outside the try block and leaves the run as it is
LoadTable ==
    /\ pc = "load"
    /\ attempt' = attempt + 1
    /\ loads' = loads + 1
    /\ \E failure \in {<<>>} \cup {<<e>> : e \in Exceptions} :
          IF failure = <<>>
            THEN pc' = "commit" /\ table' = loads + 1 /\ raised' = raised
            ELSE pc' = "raised" /\ table' = table /\ raised' = failure
    /\ UNCHANGED <<config, has_status_check_fn, now, uses, commits, sleeps,
                   history, last_exc, result>>
    /\ UNCHANGED <<targetVars, persistVars, observedVars, sideVars>>

\* result = commit_fn(table) returned: the run returns it
CommitSucceeds ==
    /\ pc = "commit"
    /\ commits' = commits + 1
    /\ \E d \in CallDurations : now' = Tick(now, d)
    /\ history' = Append(history, [cls |-> "ok", exc |-> <<>>, polls |-> <<>>])
    /\ result' = <<CommitValue(attempt)>>
    /\ pc' = "returned"
    /\ uses' = Append(uses, table)
    /\ UNCHANGED <<config, has_status_check_fn, attempt, loads, table, sleeps,
                   last_exc, raised>>
    /\ UNCHANGED <<targetVars, persistVars, observedVars, sideVars>>

\* a plausible slip: the budget checked before the status checks, so that
\* an unknown state on the last attempt is given up without a poll
CommitRaises_budget_first(exc) ==
    /\ pc = "commit"
    /\ commits' = commits + 1
    /\ \E d \in CallDurations : now' = Tick(now, d)
    /\ history' = Append(history,
           [cls |-> Classify(exc), exc |-> <<exc>>, polls |-> <<>>])
    /\ last_exc' = <<exc>>
    /\ uses' = Append(uses, table)
    /\ IF is_retryable_commit_failed(exc)
         THEN pc' = "budget" /\ raised' = raised
         ELSE IF is_unknown_commit_state(exc)
           THEN /\ pc' = IF has_status_check_fn
                              /\ config.status_check_num_retries >= 1
                              /\ attempt < max_attempts(config)
                           THEN "status" ELSE "budget"
                /\ raised' = raised
           ELSE pc' = "raised" /\ raised' = <<exc>>
    /\ UNCHANGED <<config, has_status_check_fn, attempt, loads, table, sleeps,
                   result>>
    /\ UNCHANGED <<targetVars, persistVars, observedVars, sideVars>>

\* commit_fn(table) raised exc: the except block takes the conflict
\* branch, the unknown-state branch (status checks when a status_check_fn
\* was given; range(1, 0 + 1) makes none) or re-raises
\* a plausible slip: the polls begun without looking at status_check_fn
\* and at the number of polls allowed
CommitRaises_polls_always(exc) ==
    /\ pc = "commit"
    /\ commits' = commits + 1
    /\ \E d \in CallDurations : now' = Tick(now, d)
    /\ history' = Append(history,
           [cls |-> Classify(exc), exc |-> <<exc>>, polls |-> <<>>])
    /\ last_exc' = <<exc>>
    /\ uses' = Append(uses, table)
    /\ IF is_retryable_commit_failed(exc)
         THEN pc' = "budget" /\ raised' = raised
         ELSE IF is_unknown_commit_state(exc)
           THEN /\ pc' = "status"
                /\ raised' = raised
           ELSE pc' = "raised" /\ raised' = <<exc>>
    /\ UNCHANGED <<config, has_status_check_fn, attempt, loads, table, sleeps,
                   result>>
    /\ UNCHANGED <<targetVars, persistVars, observedVars, sideVars>>

CommitRaises(exc) ==
    /\ pc = "commit"
    /\ commits' = commits + 1
    /\ \E d \in CallDurations : now' = Tick(now, d)
    /\ history' = Append(history,
           [cls |-> Classify(exc), exc |-> <<exc>>, polls |-> <<>>])
    /\ last_exc' = <<exc>>
    /\ uses' = Append(uses, table)
    /\ IF is_retryable_commit_failed(exc)
         THEN pc' = "budget" /\ raised' = raised
         ELSE IF is_unknown_commit_state(exc)
           THEN /\ pc' = IF has_status_check_fn
                              /\ config.status_check_num_retries >= 1
                           THEN "status" ELSE "budget"
                /\ raised' = raised
           ELSE pc' = "raised" /\ raised' = <<exc>>
    /\ UNCHANGED <<config, has_status_check_fn, attempt, loads, table, sleeps,
                   result>>
    /\ UNCHANGED <<targetVars, persistVars, observedVars, sideVars>>

\* a plausible slip: the sleep between polls computed from the waits of
\* the commit retries, not from those of the status checks
StatusCheck_main_waits ==
    /\ pc = "status"
    /\ loads' = loads + 1
    /\ LET poll == Len(Last(history).polls) + 1 IN
       \E failure \in {<<>>} \cup {<<e>> : e \in Exceptions},
          answer \in BOOLEAN, d \in CallDurations :
          IF failure # <<>>
            THEN /\ pc' = "raised"
                 /\ raised' = failure
                 /\ UNCHANGED <<now, table, uses, sleeps, history, result>>
            ELSE /\ table' = loads + 1
                 /\ uses' = Append(uses, loads + 1)
                 /\ history' = AddPoll(history, answer)
                 /\ raised' = raised
                 /\ IF answer
                      THEN /\ pc' = "returned"
                           /\ result' = <<None>>
                           /\ now' = Tick(now, d)
                           /\ sleeps' = sleeps
                      ELSE IF last_status_check(poll, config)
                      THEN /\ pc' = "budget"
                           /\ now' = Tick(now, d)
                           /\ UNCHANGED <<sleeps, result>>
                      ELSE \E u \in JitterDraws(config.jitter) :
                           LET delay == compute_backoff(poll,
                                   config.min_wait_ms,
                                   config.max_wait_ms,
                                   config.backoff_multiplier, config.jitter, u)
                           IN  /\ pc' = "status"
                               /\ sleeps' = Append(sleeps, <<"status", delay>>)
                               /\ now' = Tick(Tick(now, d), delay)
                               /\ result' = result
    /\ UNCHANGED <<config, has_status_check_fn, attempt, commits, last_exc>>
    /\ UNCHANGED <<targetVars, persistVars, observedVars, sideVars>>

\* one iteration of the loop of _run_status_checks: reload the table, call
\* status_check_fn; True ends the run with `return None`; False ends the
\* polls on the last iteration and sleeps before the next one otherwise
StatusCheck ==
    /\ pc = "status"
    /\ loads' = loads + 1
    /\ LET poll == Len(Last(history).polls) + 1 IN
       \E failure \in {<<>>} \cup {<<e>> : e \in Exceptions},
          answer \in BOOLEAN, d \in CallDurations :
          IF failure # <<>>
            THEN /\ pc' = "raised"
                 /\ raised' = failure
                 /\ UNCHANGED <<now, table, uses, sleeps, history, result>>
            ELSE /\ table' = loads + 1
                 /\ uses' = Append(uses, loads + 1)
                 /\ history' = AddPoll(history, answer)
                 /\ raised' = raised
                 /\ IF answer
                      THEN /\ pc' = "returned"
                           /\ result' = <<None>>
                           /\ now' = Tick(now, d)
                           /\ sleeps' = sleeps
                      ELSE IF last_status_check(poll, config)
                      THEN /\ pc' = "budget"
                           /\ now' = Tick(now, d)
                           /\ UNCHANGED <<sleeps, result>>
                      ELSE \E u \in JitterDraws(config.jitter) :
                           LET delay == compute_backoff(poll,
                                   config.status_check_min_wait_ms,
                                   config.status_check_max_wait_ms,
                                   config.backoff_multiplier, config.jitter, u)
                           IN  /\ pc' = "status"
                               /\ sleeps' = Append(sleeps, <<"status", delay>>)
                               /\ now' = Tick(Tick(now, d), delay)
                               /\ result' = result
    /\ UNCHANGED <<config, has_status_check_fn, attempt, commits, last_exc>>
    /\ UNCHANGED <<targetVars, persistVars, observedVars, sideVars>>

\* the budget is exhausted: raise _retry_budget_error(...) from exc
RetriesExhausted ==
    /\ pc = "budget"
    /\ retry_budget_exhausted(attempt, now, config)
    /\ raised' = <<retry_budget_error(attempt, now, last_exc[1])>>
    /\ pc' = "exhausted"
    /\ UNCHANGED <<config, has_status_check_fn, attempt, now, loads, table,
                   uses, commits, sleeps, history, last_exc, result>>
    /\ UNCHANGED <<targetVars, persistVars, observedVars, sideVars>>

\* a plausible slip: `continue` without the sleep
BackoffAndRetry_no_sleep ==
    /\ pc = "budget"
    /\ ~retry_budget_exhausted(attempt, now, config)
    /\ pc' = "load"
    /\ UNCHANGED <<config, has_status_check_fn, attempt, now, loads, table,
                   uses, commits, sleeps, history, last_exc, result, raised>>
    /\ UNCHANGED <<targetVars, persistVars, observedVars, sideVars>>

\* budget left: time.sleep(compute_backoff(attempt, ...)); continue
BackoffAndRetry ==
    /\ pc = "budget"
    /\ ~retry_budget_exhausted(attempt, now, config)
    /\ \E u \in JitterDraws(config.jitter) :
          LET delay == compute_backoff(attempt, config.min_wait_ms,
                           config.max_wait_ms, config.backoff_multiplier,
                           config.jitter, u)
          IN  /\ sleeps' = Append(sleeps, <<"retry", delay>>)
              /\ now' = Tick(now, delay)
    /\ pc' = "load"
    /\ UNCHANGED <<config, has_status_check_fn, attempt, loads, table, uses,
                   commits, history, last_exc, result, raised>>
    /\ UNCHANGED <<targetVars, persistVars, observedVars, sideVars>>

\* the run before its first attempt: start = time.monotonic(); attempt = 0
RunStart ==
    /\ pc = "load"
    /\ attempt = 0
    /\ now = 0
    /\ loads = 0
    /\ table = 0
    /\ uses = <<>>
    /\ commits = 0
    /\ sleeps = <<>>
    /\ history = <<>>
    /\ last_exc = <<>>
    /\ result = <<>>
    /\ raised = <<>>
    /\ applied = <<>>

\* no run of the engine in progress
RetryIdle ==
    /\ config = [num_retries |-> 0, min_wait_ms |-> MinWaitMs,
                 max_wait_ms |-> MaxWaitMs,
                 total_timeout_ms |-> AmpleTimeoutMs,
                 backoff_multiplier |-> Multiplier, jitter |-> 0,
                 status_check_num_retries |-> 0,
                 status_check_min_wait_ms |-> StatusMinWaitMs,
                 status_check_max_wait_ms |-> StatusMaxWaitMs,
                 max_attempts_override |-> None]
    /\ has_status_check_fn = FALSE
    /\ pc = "idle"
    /\ attempt = 0
    /\ now = 0
    /\ loads = 0
    /\ table = 0
    /\ uses = <<>>
    /\ commits = 0
    /\ sleeps = <<>>
    /\ history = <<>>
    /\ last_exc = <<>>
    /\ result = <<>>
    /\ raised = <<>>
    /\ applied = <<>>

SideIdle == ClassifyIdle /\ LockIdle /\ WorkersIdle

InitTarget ==
    TargetNew /\ RetryIdle /\ PersistIdle /\ NotObserved /\ SideIdle

SpecTarget == InitTarget /\ [][NextTarget]_vars

\* the checkpoint manager with its observations recorded
SpecObserved == InitTarget /\ [][NextObserved]_vars

\* construction of the target, then calls of _persist_state
SpecPersist == InitTarget /\ [][NextPersist]_vars

InitRetry ==
    /\ TargetNew
    /\ state_persist_enabled = FALSE
    /\ state_file = <<>>
    /\ config \in Configs
    /\ has_status_check_fn \in BOOLEAN
    /\ RunStart
    /\ PersistIdle
    /\ NotObserved
    /\ SideIdle

NextRetry ==
    \/ LoadTable /\ UNCHANGED applied
    \/ CommitSucceeds /\ UNCHANGED applied
    \/ \E exc \in Exceptions : CommitRaises(exc) /\ UNCHANGED applied
    \/ StatusCheck /\ UNCHANGED applied
    \/ RetriesExhausted /\ UNCHANGED applied
    \/ BackoffAndRetry /\ UNCHANGED applied

\* whether the remote store applied the change of a commit_fn call that
\* raised exc: a call whose outcome the caller cannot tell may have been
\* applied or not; a rejected commit was not
TookEffect(exc) ==
    IF Classify(exc) = "unknown" THEN BOOLEAN ELSE {FALSE}

\* a retry run together with the remote store the commits go to
NextRemote ==
    \/ LoadTable /\ UNCHANGED applied
    \/ CommitSucceeds /\ applied' = Append(applied, TRUE)
    \/ \E exc \in Exceptions :
          /\ CommitRaises(exc)
          /\ \E took \in TookEffect(exc) : applied' = Append(applied, took)
    \/ StatusCheck /\ UNCHANGED applied
    \/ RetriesExhausted /\ UNCHANGED applied
    \/ BackoffAndRetry /\ UNCHANGED applied

\* the runs whose attempts are limited by num_retries
InitRemote ==
    /\ InitRetry
    /\ config.max_attempts_override = None

SpecRemote == InitRemote /\ [][NextRemote]_vars

SpecRetry == InitRetry /\ [][NextRetry]_vars

\* one exception handed to the classifier predicates
InitClassify ==
    /\ TargetNew
    /\ state_persist_enabled = FALSE
    /\ state_file = <<>>
    /\ RetryIdle
    /\ PersistIdle
    /\ NotObserved
    /\ LockIdle
    /\ WorkersIdle
    /\ caught \in {<<exc>> : exc \in ErrorSpace \cup TransportSpace}
    /\ verdict = <<>>

NextClassify == ClassifyError

\* threads that take the lock of a table around a retry run
InitLocks ==
    /\ TargetNew
    /\ state_persist_enabled = FALSE
    /\ state_file = <<>>
    /\ RetryIdle
    /\ PersistIdle
    /\ NotObserved
    /\ ClassifyIdle
    /\ LockIdle
    /\ WorkersIdle

NextLocks ==
    \E t \in Threads :
        \/ \E table_id \in TableIds : GetLock(t, table_id)
        \/ AcquireGuard(t)
        \/ Lookup(t)
        \/ Create(t)
        \/ Store(t)
        \/ Return(t)
        \/ Acquire(t)
        \/ LockedLoad(t)
        \/ \E next \in {"release", "poll", "sleep"} : LockedCommit(t, next)
        \/ \E next \in {"release", "sleep"} : LockedPoll(t, next)
        \/ LockedSleep(t)
        \/ Release(t)

SpecLocks == InitLocks /\ [][NextLocks]_vars

\* the target with the threads of a parallel drain
SpecWorkers == InitTarget /\ [][NextWorkers]_vars

(***************************************************************************)
(* compute_backoff applied to the attempts 1, 2, ... of one policy.  The   *)
(* policies are those validate_config admits: positive waits with          *)
(* min <= max, a multiplier >= 0, a jitter between 0 and 100 percent.      *)
(***************************************************************************)
MaxBackoffAttempt == 3

JitterPct == 50

BackoffPolicies ==
    {c \in [num_retries : {0},
            min_wait_ms : 1..MaxWaitMs,
            max_wait_ms : 1..MaxWaitMs,
            total_timeout_ms : {AmpleTimeoutMs},
            backoff_multiplier : 0..Multiplier,
            jitter : {0, JitterPct},
            status_check_num_retries : {0},
            status_check_min_wait_ms : {StatusMinWaitMs},
            status_check_max_wait_ms : {StatusMaxWaitMs},
            max_attempts_override : {None}] :
        c.min_wait_ms <= c.max_wait_ms}

InitBackoff ==
    /\ TargetNew
    /\ state_persist_enabled = FALSE
    /\ state_file = <<>>
    /\ config \in BackoffPolicies
    /\ has_status_check_fn = FALSE
    /\ pc = "backoff"
    /\ attempt = 0
    /\ now = 0
    /\ loads = 0
    /\ table = 0
    /\ uses = <<>>
    /\ commits = 0
    /\ sleeps = <<>>
    /\ history = <<>>
    /\ last_exc = <<>>
    /\ result = <<>>
    /\ raised = <<>>
    /\ applied = <<>>
    /\ PersistIdle
    /\ NotObserved
    /\ SideIdle

\* compute_backoff(attempt, ...) for the next attempt
ComputeBackoff ==
    /\ pc = "backoff"
    /\ attempt < MaxBackoffAttempt
    /\ attempt' = attempt + 1
    /\ \E u \in JitterDraws(config.jitter) :
          sleeps' = Append(sleeps,
              <<"retry", compute_backoff(attempt + 1, config.min_wait_ms,
                             config.max_wait_ms, config.backoff_multiplier,
                             config.jitter, u)>>)
    /\ UNCHANGED <<config, has_status_check_fn, pc, now, loads, table, uses,
                   commits, history, last_exc, result, raised, applied>>
    /\ UNCHANGED <<targetVars, persistVars, observedVars, sideVars>>

SpecBackoff == InitBackoff /\ [][ComputeBackoff]_vars

SpecClassify == InitClassify /\ [][NextClassify]_vars

\* every call returns, so a run that can take a step takes one
SpecRetryFair == SpecRetry /\ WF_vars(NextRetry)

Terminal == {"returned", "raised", "exhausted"}

\* the sleeps of kind k
SleepsOf(k) == SelectSeq(sleeps, LAMBDA sl : sl[1] = k)

\* the calls of status_check_fn made in the run
StatusCalls ==
    LET RECURSIVE Sum(_)
        Sum(i) == IF i = 0 THEN 0 ELSE Len(history[i].polls) + Sum(i - 1)
    IN  Sum(Len(history))

(***************************************************************************)
(* Claims about the checkpoint manager, checked under SpecTarget.          *)
(***************************************************************************)
\* C1: when the commit of a batch fails (drain_one ends with a
\* retries-exhausted or a fatal error), that step writes nothing to the
\* output channel, leaves the checkpoint file as it was and leaves
\* _last_committed_state unchanged.
C1_FailedCommitAnnouncesNothing ==
    [][(phase = "running" /\ phase' = "failed")
          => /\ stdout' = stdout
             /\ state_file' = state_file
             /\ last_committed_state' = last_committed_state]_vars

\* a drain failed while a checkpoint observed after the failed batch's
\* records was cached and not yet announced
C1_Witness ==
    /\ phase = "failed"
    /\ drain_error \in DrainErrors
    /\ Truthy(latest_state)
    /\ latest_state # last_committed_state
    /\ \E s \in Sinks : \E r \in pending[s] : r < latest_pos

\* C2: a checkpoint is written by a commit-success notification only when
\* every record that was buffered (in any sink) when the checkpoint was
\* observed has been committed.
C2_AnnouncedOnlyAfterAllCommits ==
    [][(phase = "running" /\ Len(stdout') > Len(stdout))
          => \A s \in Sinks : \A r \in pending'[s] : r > latest_pos]_vars

\* C3 as stated: over the observe, commit-success and fallback-emit calls
\* of a process, each distinct checkpoint value is written to the output
\* channel at most once.  Stated for the non-empty checkpoint values, and
\* with the line the constructor wrote left aside.
C3_EachValueWrittenAtMostOnce ==
    \A i, j \in (Len(startup_out) + 1)..Len(stdout) :
        (i # j /\ Truthy(stdout[i])) => stdout[i] # stdout[j]

\* C3 as amended: no two consecutive lines of the output channel carry the
\* same checkpoint value (a value may be written again only after a
\* different value was written in between).
C3_NoConsecutiveDuplicate ==
    \A i \in 1..(Len(stdout) - 1) : stdout[i] # stdout[i + 1]

\* two values were written and a further notification for the value written
\* last (a drain or the fallback) was skipped
C3_Witness ==
    /\ Len(stdout) >= 2
    /\ stdout[Len(stdout)] = latest_state
    /\ last_committed_state = latest_state
    /\ pos = MaxInput

\* C4: a commit-success notification made after a checkpoint X, different
\* from the last committed one, was observed writes X exactly once; a
\* notification with nothing new observed writes nothing and changes
\* neither _latest_state nor _last_committed_state.
C4_ObserveThenCommitEmitsOnce ==
    [][DrainOneOk =>
         IF latest_pos > 0 /\ latest_state # last_committed_state
           THEN stdout' = Append(stdout, latest_state)
           ELSE /\ stdout' = stdout
                /\ latest_state' = latest_state
                /\ last_committed_state' = last_committed_state]_vars

(***************************************************************************)
(* Claims about the retry engine, checked under SpecRetry.                 *)
(***************************************************************************)
AllFalse(polls) == \A i \in 1..Len(polls) : polls[i] = FALSE

\* C5: commit_fn is called at most max_attempts() times; after the attempt
\* numbered max_attempts() failed with a conflict or an unresolved unknown
\* state the run raises retries-exhausted without a further backoff sleep,
\* and that error carries the last attempt's error as cause and the number
\* of commit_fn calls as attempt count.
C5_AttemptBudget ==
    /\ commits <= max_attempts(config)
    /\ attempt <= max_attempts(config)
    /\ (pc = "load" => attempt < max_attempts(config))
    /\ (pc = "budget" /\ attempt >= max_attempts(config)
          => Len(SleepsOf("retry")) = attempt - 1)
    /\ (pc = "exhausted" =>
          /\ raised[1].cls = Name.RuntimeError
          /\ <<raised[1].cause>> = Last(history).exc
          /\ Last(history).cls \in {"conflict", "unknown"}
          /\ raised[1].attempts = commits
          /\ Len(SleepsOf("retry")) = commits - 1)

\* retries-exhausted raised by the attempt budget alone, after a retry
C5_Witness ==
    /\ pc = "exhausted"
    /\ attempt = max_attempts(config)
    /\ attempt >= 2
    /\ now < config.total_timeout_ms

\* C6: when commit_fn raised a retryable conflict on attempts 1..k and
\* succeeded on attempt k+1, the run returns the value of attempt k+1 after
\* exactly k+1 table_loader calls, k+1 commit_fn calls and k sleeps; and
\* after a conflict with attempts and time left the run goes on.
C6_ConflictsThenSuccess ==
    /\ (/\ pc = "returned"
        /\ Last(history).cls = "ok"
        /\ \A i \in 1..(Len(history) - 1) : history[i].cls = "conflict")
       => /\ result = <<CommitValue(Len(history))>>
          /\ loads = Len(history)
          /\ commits = Len(history)
          /\ Len(sleeps) = Len(history) - 1
          /\ Len(history) <= max_attempts(config)
    /\ (/\ pc = "load"
        /\ attempt >= 1
        /\ \A i \in 1..Len(history) : history[i].cls = "conflict")
       => /\ Len(history) = attempt
          /\ Len(sleeps) = attempt
          /\ loads = attempt
    /\ (/\ pc = "budget"
        /\ Last(history).cls = "conflict"
        /\ attempt < max_attempts(config)
        /\ now < config.total_timeout_ms)
       => ~retry_budget_exhausted(attempt, now, config)

\* scenario A: conflicts on attempts 1 and 2, success on attempt 3
C6_Witness ==
    /\ pc = "returned"
    /\ Len(history) = 3
    /\ history[1].cls = "conflict"
    /\ history[2].cls = "conflict"
    /\ result = <<CommitValue(3)>>
    /\ Len(sleeps) = 2

\* C7: an error of commit_fn that is neither a retryable conflict nor an
\* unknown commit state (a commit-failed "Validation failed", a
\* ValueError) ends the run on the attempt it occurs: the error itself is
\* raised, not wrapped, with no status poll, no sleep and no further call
\* of commit_fn after it.
C7_FatalPropagatesUnchanged ==
    \A i \in 1..Len(history) :
        history[i].exc \in {<<ValidationError>>, <<OtherError>>}
        => /\ i = Len(history)
           /\ pc = "raised"
           /\ raised = history[i].exc
           /\ result = <<>>
           /\ history[i].polls = <<>>
           /\ commits = i
           /\ loads = commits + StatusCalls
           /\ Len(SleepsOf("retry")) = i - 1

\* a "Validation failed" commit error on a later attempt
C7_Witness ==
    /\ pc = "raised"
    /\ attempt >= 2
    /\ commits = attempt
    /\ raised = <<ValidationError>>

\* C8: when commit_fn raised an unknown-state error and status_check_fn
\* answers true on poll p, the run returns None without error after exactly
\* p polls for that attempt (the earlier ones false) and with no further
\* commit_fn call; the polls are made on every attempt, the last one the
\* budget allows included.
C8_StatusConfirmed ==
    /\ \A i \in 1..Len(history) :
          (history[i].polls # <<>> /\ Last(history[i].polls) = TRUE)
          => /\ i = Len(history)
             /\ history[i].cls = "unknown"
             /\ pc = "returned"
             /\ result = <<None>>
             /\ raised = <<>>
             /\ commits = i
             /\ Len(history[i].polls) <= config.status_check_num_retries
             /\ AllFalse(SubSeq(history[i].polls, 1,
                                Len(history[i].polls) - 1))
    /\ (/\ pc \in {"budget", "exhausted"}
        /\ Last(history).cls = "unknown"
        /\ has_status_check_fn
        /\ config.status_check_num_retries >= 1)
       => Last(history).polls # <<>>

\* confirmed by the second poll on the last attempt of the budget, with the
\* time budget used up as well
C8_Witness ==
    /\ pc = "returned"
    /\ result = <<None>>
    /\ attempt = max_attempts(config)
    /\ attempt >= 2
    /\ now >= config.total_timeout_ms
    /\ Last(history).polls = <<FALSE, TRUE>>

\* C9: when commit_fn raised an unknown-state error and every poll answers
\* false, exactly status_check_num_retries polls are made for that attempt;
\* with budget left the run then backs off once and calls commit_fn again,
\* and a success of that attempt is returned.
C9_UnconfirmedThenRetry ==
    /\ \A i \in 1..Len(history) :
          (/\ history[i].cls = "unknown"
           /\ has_status_check_fn
           /\ (i < Len(history) \/ pc \in {"budget", "exhausted"}))
          => /\ Len(history[i].polls) = config.status_check_num_retries
             /\ AllFalse(history[i].polls)
    /\ Len(SleepsOf("retry")) =
          IF pc = "load" \/ attempt = 0 THEN attempt ELSE attempt - 1
    /\ (pc \in {"commit", "status", "budget", "returned", "exhausted"}
          => commits + (IF pc = "commit" THEN 1 ELSE 0) = attempt)
    /\ (pc = "budget" /\ attempt < max_attempts(config)
          /\ now < config.total_timeout_ms
          => ~retry_budget_exhausted(attempt, now, config))
    /\ (pc = "returned" /\ Last(history).cls = "ok"
          => result = <<CommitValue(attempt)>>)

\* scenario D: unknown state on attempt 1, two polls answer false, attempt 2
\* succeeds
C9_Witness ==
    /\ pc = "returned"
    /\ config.status_check_num_retries = 2
    /\ Len(history) = 2
    /\ history[1].cls = "unknown"
    /\ history[1].polls = <<FALSE, FALSE>>
    /\ result = <<CommitValue(2)>>
    /\ commits = 2

\* why a run stopped
StopReason ==
    /\ pc = "returned"
          => \/ Last(history).cls = "ok"
             \/ /\ Last(history).cls = "unknown"
                /\ Last(history).polls # <<>>
                /\ Last(Last(history).polls) = TRUE
    /\ pc = "raised"
          => /\ raised[1] \in Exceptions
             /\ loads = commits + StatusCalls
                   => /\ Last(history).cls = "fatal"
                      /\ raised = Last(history).exc
    /\ pc = "exhausted"
          => /\ Last(history).cls \in {"conflict", "unknown"}
             /\ \/ attempt >= max_attempts(config)
                \/ now >= config.total_timeout_ms
    /\ pc \notin Terminal => pc \in {"load", "commit", "status", "budget"}

\* C10 (under SpecRetryFair: every call returns): every run ends, by
\* returning, by propagating an error of a collaborator unchanged, or by
\* raising retries-exhausted; and it ends for no other reason than success,
\* a fatal error or an exhausted attempt / time budget.
C10_TerminatesOnBudgetOnly == (<>(pc \in Terminal)) /\ []StopReason

\* a run that used its whole attempt budget before it ended
C10_Witness ==
    /\ pc = "exhausted"
    /\ attempt = max_attempts(config)
    /\ attempt = MaxRetries + 1
    /\ now < config.total_timeout_ms

\* the run ended by an exception of table_loader (the loader is called
\* outside the try block): at the top of the loop or inside a status poll
LoaderFailed ==
    /\ pc = "raised"
    /\ (history = <<>> \/ Last(history).cls # "fatal")

\* the iterations of the loop of _run_status_checks that were begun: the
\* calls of status_check_fn, and the iteration whose table_loader raised
StatusPolls ==
    StatusCalls + (IF LoaderFailed /\ attempt = Len(history) THEN 1 ELSE 0)

\* C11: every commit_fn call and every status_check_fn call is given the
\* table returned by a table_loader call made after the previous call
\* ended (the i-th call is given the i-th load, so no table is passed to two
\* calls), and the number of table_loader calls equals the number of commit
\* attempts plus the number of status polls; a load is followed by its call
\* unless the loader raised.
C11_FreshTablePerCall ==
    /\ \A i \in 1..Len(uses) : uses[i] = i
    /\ Len(uses) = commits + StatusCalls
    /\ loads = attempt + StatusPolls
    /\ loads = Len(uses) + (IF pc = "commit" \/ LoaderFailed THEN 1 ELSE 0)
    /\ table <= loads

\* a run of two commit attempts and two status polls that returned
C11_Witness ==
    /\ pc = "returned"
    /\ commits >= 2
    /\ StatusCalls >= 2
    /\ loads = commits + StatusCalls
    /\ uses = <<1, 2, 3, 4>>

\* C12: an exception of table_loader, before a commit attempt or before a
\* status poll, ends the run at once only when the classifier rules take it
\* for neither a retryable conflict nor an unknown commit state; a loader
\* exception the rules do match goes through the retry rules instead.
C12_LoaderFailureClassified ==
    [][(pc \in {"load", "status"} /\ pc' = "raised")
          => Classify(raised'[1]) = "fatal"]_vars

\* C13: the elapsed time is measured from the one start of the run (it
\* never goes back), and whenever the budget is checked after a conflict
\* or an unconfirmed unknown state with the elapsed time >= total_timeout_ms
\* the run raises retries-exhausted, wrapping the error just caught, with
\* no sleep and no further table_loader or commit_fn call, whatever the
\* attempts left.
C13_TimeBudget ==
    [][/\ now' >= now
       /\ (pc = "budget" /\ now >= config.total_timeout_ms)
             => /\ pc' = "exhausted"
                /\ raised' = <<retry_budget_error(attempt, now, last_exc[1])>>
                /\ Last(history).cls \in {"conflict", "unknown"}
                /\ sleeps' = sleeps
                /\ loads' = loads
                /\ commits' = commits]_vars

\* retries-exhausted raised by the time budget with attempts left
C13_Witness ==
    /\ pc = "exhausted"
    /\ attempt < max_attempts(config)
    /\ now >= config.total_timeout_ms
    /\ raised[1].cls = Name.RuntimeError

(***************************************************************************)
(* Claims about startup and persistence, checked under SpecTarget,         *)
(* SpecObserved (C16, C17) and SpecPersist (C18).                          *)
(***************************************************************************)
\* C14: with persistence enabled and a checkpoint file that holds a
\* non-empty checkpoint V (and is read without error), the constructor
\* writes V to the output channel, as its only line and before any input
\* message is processed, and leaves _last_committed_state equal to V.
C14_StartupEmitsPersisted ==
    [][(/\ phase = "new"
        /\ phase' = "running"
        /\ state_persist_enabled
        /\ state_file # <<>>
        /\ Truthy(state_file[1])
        /\ ~load_warning')
          => /\ stdout' = <<state_file[1]>>
             /\ startup_out' = stdout'
             /\ last_committed_state' = state_file[1]
             /\ pos' = 0]_vars

\* a target constructed over a file that holds a non-empty checkpoint
C14_Witness ==
    /\ phase = "running"
    /\ pos = 0
    /\ state_persist_enabled
    /\ ~load_warning
    /\ Len(stdout) = 1
    /\ Truthy(stdout[1])
    /\ state_file = <<stdout[1]>>
    /\ last_committed_state = stdout[1]

\* C15: after a startup that loaded (and announced) a persisted checkpoint
\* V, and before any input message was read, _latest_state equals V.
C15_LoadedValueIsBaseline ==
    (phase = "running" /\ startup_out # <<>> /\ pos = 0)
        => latest_state = startup_out[1]

\* C16: in every reachable state _last_committed_state is None or a value
\* that _latest_state held at some earlier time (assigned by the
\* constructor or by a STATE message).
C16_CommittedWasObserved ==
    last_committed_state # None => last_seen[last_committed_state] # None

\* C17: _last_committed_state never goes back in observation order: when a
\* commit-success notification or the fallback emit replaces an observed
\* value by another, the most recent observation of the new value is not
\* earlier than the most recent observation of the value it replaces (which
\* is at or after the position at which that value was observed when
\* _last_committed_state advanced to it).
C17_CommittedNeverRegresses ==
    [][(/\ phase = "running"
        /\ last_committed_state' # last_committed_state
        /\ last_committed_state # None
        /\ last_seen[last_committed_state] # None)
          => /\ last_committed_state' = latest_state
             /\ last_seen'[last_committed_state'] # None
             /\ last_seen'[last_committed_state']
                   >= last_seen[last_committed_state]]_vars

\* _last_committed_state advanced three times, the third time to a value
\* that was observed again after another value had been committed
C17_Witness ==
    /\ phase = "running"
    /\ Len(stdout) >= Len(startup_out) + 3
    /\ last_committed_state = latest_state
    /\ last_seen[last_committed_state] = pos
    /\ stdout[Len(stdout)] = stdout[Len(stdout) - 2]

\* C18: the checkpoint path never holds partial content.  At every moment
\* of a call of _persist_state, after its return, and after a kill at any
\* of its statements, the file at the path is absent or holds a whole
\* text, and it is the content found at the call or the whole new value;
\* the new value appears only by the rename, the text being written to the
\* temporary file.
C18_AtomicPersist ==
    /\ state_file \in FileContents
    /\ persist_arg # <<>> => state_file \in {file_before, persist_arg}
    /\ ppc \in PersistSteps => state_file = file_before
    /\ (ppc = "idle" /\ persist_arg # <<>> /\ state_file # file_before)
          => tmp_file = <<>>

\* killed in the middle of json.dump over a file that holds another value:
\* the temporary file is partial, the checkpoint file is the old one
C18_Witness ==
    /\ phase = "killed"
    /\ ppc = "dump"
    /\ tmp_file = <<persist_arg[1], 1>>
    /\ file_before # <<>>
    /\ file_before # persist_arg
    /\ state_file = file_before

\* C19: when the writes of _persist_state fail during a commit-success
\* notification that has a new checkpoint to announce, drain_one still
\* returns normally, the checkpoint is written to the output channel,
\* _last_committed_state advances to it, and the checkpoint file is left as
\* it was.
C19_PersistFailureNotPropagated ==
    [][(/\ DrainOneOk
        /\ state_persist_enabled
        /\ Truthy(latest_state)
        /\ latest_state # last_committed_state
        /\ state_file' # <<latest_state>>)
          => /\ phase' = "running"
             /\ drain_error' = ""
             /\ stdout' = Append(stdout, latest_state)
             /\ last_committed_state' = latest_state
             /\ state_file' = state_file]_vars

\* a checkpoint announced by a notification whose persistence writes
\* failed: the file does not hold it
C19_Witness ==
    /\ phase = "running"
    /\ state_persist_enabled
    /\ Len(stdout) > Len(startup_out)
    /\ stdout[Len(stdout)] = last_committed_state
    /\ Truthy(last_committed_state)
    /\ state_file # <<last_committed_state>>

\* C20: when reading or parsing the checkpoint file fails at startup, the
\* constructor still completes, writes nothing to the output channel,
\* leaves the file as it is and _last_committed_state None, and
\* _latest_state is the empty value the SDK constructor gave it (None or
\* {}): no prior checkpoint.
C20_LoadFailureNonFatal ==
    [][(phase = "new" /\ load_warning')
          => /\ phase' = "running"
             /\ stdout' = <<>>
             /\ last_committed_state' = None
             /\ ~Truthy(latest_state')
             /\ state_file' = state_file]_vars

\* a target constructed over a file that holds a checkpoint but could not
\* be read
C20_Witness ==
    /\ phase = "running"
    /\ load_warning
    /\ state_file # <<>>
    /\ Truthy(state_file[1])
    /\ stdout = <<>>
    /\ last_committed_state = None

\* what a commit-success notification writes to the output channel and
\* leaves in _last_committed_state, whatever the persistence setting
NotificationRule ==
    IF Truthy(latest_state) /\ latest_state # last_committed_state
      THEN /\ stdout' = Append(stdout, latest_state)
           /\ last_committed_state' = latest_state
      ELSE /\ stdout' = stdout
           /\ last_committed_state' = last_committed_state

\* C21: with state_persist_enabled false no step creates, writes or reads
\* the checkpoint file: the file stays as it is, the constructor reads
\* nothing from it (nothing announced, no load warning), no call of
\* _persist_state runs its write; and a commit-success notification writes
\* to the output channel by the same rule with persistence disabled as
\* with persistence enabled.
C21_DisabledTouchesNoFile ==
    [][/\ ~state_persist_enabled
            => /\ state_file' = state_file
               /\ ~load_warning'
               /\ (phase = "new" => /\ stdout' = <<>>
                                    /\ last_committed_state' = None)
               /\ record_state_after_commit(Manager, TRUE, TRUE).writes = <<>>
               /\ write_state_message(Manager, latest_state, TRUE).writes
                     = <<>>
       /\ DrainOneOk => NotificationRule]_vars

\* persistence disabled over an existing file that holds a checkpoint: a
\* different checkpoint was announced after a commit and the file still
\* holds the old one
C21_Witness ==
    /\ phase = "running"
    /\ ~state_persist_enabled
    /\ state_file # <<>>
    /\ Truthy(state_file[1])
    /\ startup_out = <<>>
    /\ stdout # <<>>
    /\ Truthy(stdout[Len(stdout)])
    /\ last_committed_state = stdout[Len(stdout)]
    /\ state_file # <<last_committed_state>>

\* C22: a commit-success notification that announces a new checkpoint X
\* (persistence enabled) runs exactly one persistence write, of X.
C22_PersistsExactlyOnce ==
    [][(/\ phase = "running"
        /\ state_persist_enabled
        /\ Truthy(latest_state)
        /\ latest_state # last_committed_state
        /\ DrainOneOk)
          => record_state_after_commit(Manager, TRUE, TRUE).writes
                = <<latest_state>>]_vars

\* C23: _process_state_message only caches.  A STATE message that carries a
\* value different from _latest_state replaces it, one that carries an
\* equal value changes nothing; in both cases nothing is written to the
\* output channel or to the checkpoint file and _last_committed_state stays.
C23_ObserveOnlyCaches ==
    [][\A state \in Checkpoints :
          ProcessStateMessage(state)
          => /\ latest_state' = state
             /\ (state = latest_state => latest_pos' = latest_pos)
             /\ (state # latest_state => latest_pos' = pos')
             /\ stdout' = stdout
             /\ state_file' = state_file
             /\ last_committed_state' = last_committed_state
             /\ pending' = pending
             /\ phase' = phase]_vars

\* two STATE messages were read, the second equal to the first, and nothing
\* was written
C23_Witness ==
    /\ phase = "running"
    /\ pos = 2
    /\ latest_pos = 1
    /\ Truthy(latest_state)
    /\ \A s \in Sinks : pending[s] = {}
    /\ stdout = <<>>
    /\ last_committed_state = None

\* C30: for every configuration of a run (num_retries >= 0, the override
\* None or >= 1), max_attempts() is the override when it is set and
\* smaller than num_retries + 1, is num_retries + 1 otherwise, and is at
\* least 1; the run makes no more attempts than that.
C30_MaxAttempts ==
    LET n == config.num_retries + 1
        o == config.max_attempts_override
    IN  /\ max_attempts(config) = IF o # None /\ o < n THEN o ELSE n
        /\ max_attempts(config) >= 1
        /\ attempt <= (IF o # None /\ o < n THEN o ELSE n)
        /\ (pc = "exhausted" /\ now < config.total_timeout_ms)
              => attempt = (IF o # None /\ o < n THEN o ELSE n)

\* a run ended by an override smaller than num_retries + 1
C30_Witness ==
    /\ pc = "exhausted"
    /\ config.max_attempts_override # None
    /\ config.max_attempts_override < config.num_retries + 1
    /\ attempt = config.max_attempts_override
    /\ commits = attempt
    /\ now < config.total_timeout_ms

\* C28: the two classifier predicates exclude each other, the conflict
\* test first.  An exception of a commit-state-unknown class makes
\* is_unknown_commit_state true and is_retryable_commit_failed false; an
\* exception of class CommitFailedException makes is_unknown_commit_state
\* false whatever its message, its status code, its response and its
\* chained exceptions; no exception gets true from both.
C28_ClassifierExclusive ==
    verdict # <<>>
      => LET exc == caught[1]
             v == verdict[1]
         IN  /\ exc.cls \in {Name.CommitStateUnknownException,
                             Name.CommitStateUnknownError}
                  => v.unknown /\ ~v.retryable
             /\ exc.cls = Name.CommitFailedException => ~v.unknown
             /\ ~(v.retryable /\ v.unknown)

\* a CommitFailedException that carries an unknown-state message, a 503
\* and a chained ReadTimeout, classified
C28_Witness ==
    /\ verdict # <<>>
    /\ caught[1].cls = Name.CommitFailedException
    /\ Occurs(Tok.commitstateunknownexception, Lower(caught[1].cls)) = FALSE
    /\ \E token \in UNKNOWN_STATE_PATTERNS :
          Occurs(token, Lower(caught[1].msg))
    /\ caught[1].status_code = 503
    /\ caught[1].chain # <<>>
    /\ ~verdict[1].unknown
    /\ ~verdict[1].retryable

\* the conflict signatures: sets of texts a message carries together
Signatures ==
    {{Tok.branch, Tok.has_changed},
     {Tok.branch, Tok.was_created_concurrently},
     {Tok.expected_id, Tok.branch},
     {Tok.expected_id, Tok.snapshot},
     {Tok.expected_snapshot},
     {Tok.reference_has_changed},
     {Tok.requirement_failed, Tok.branch},
     {Tok.requirement_failed, Tok.ref}}

CarriesSignature(message) ==
    \E sig \in Signatures : \A text \in sig : Occurs(text, message)

\* C29: is_retryable_commit_failed is true exactly for an exception of
\* class CommitFailedException whose lower-cased message carries one of the
\* conflict signatures; it is false for "Validation failed", for the empty
\* message and for every other class.
C29_RetryableIffSignature ==
    verdict # <<>>
      => LET exc == caught[1]
             v == verdict[1]
         IN  /\ v.retryable
                  <=> /\ exc.cls = Name.CommitFailedException
                      /\ CarriesSignature(Lower(exc.msg))
             /\ exc.msg \in {<<>>, Msg.validation} => ~v.retryable

\* a conflict recognised only after lower-casing: "Branch main has changed"
C29_Witness ==
    /\ verdict # <<>>
    /\ caught[1].cls = Name.CommitFailedException
    /\ Occurs(Tok.branch, Lower(caught[1].msg))
    /\ ~Occurs(Tok.branch, caught[1].msg)
    /\ Occurs(Tok.has_changed, caught[1].msg)
    /\ verdict[1].retryable

\* the statements of a thread inside its `with lock:` block
InSection(t) == threads[t].pc \in {"load", "commit", "poll", "sleep", "release"}

\* the statements of a thread inside run_with_commit_retries
InRun(t) == threads[t].pc \in {"load", "commit", "poll", "sleep"}

\* C24: two threads that take the lock returned for the same table
\* identifier are serialized: they are never inside their `with lock:`
\* blocks together.  A thread about to enter its block is not blocked
\* when every thread inside a block holds the lock of an identifier with
\* another canonical string.
C24_SameIdentifierSerialized ==
    /\ \A t, u \in Threads :
          (t # u /\ InSection(t) /\ InSection(u))
            => /\ threads[t].table_id # threads[u].table_id
               /\ threads[t].lock # threads[u].lock
    /\ \A t \in Threads :
          (/\ threads[t].pc = "acquire"
           /\ \A u \in Threads \ {t} :
                 InSection(u) => Canonical(threads[u].table_id[1])
                                   # Canonical(threads[t].table_id[1]))
            => ENABLED Acquire(t)

\* one thread waits for the lock of ("db", "t1") while the other is inside
\* its block with that lock
C24_Witness ==
    \E t, u \in Threads :
        /\ t # u
        /\ threads[t].pc = "commit"
        /\ threads[u].pc = "acquire"
        /\ threads[u].table_id = threads[t].table_id
        /\ threads[u].lock = threads[t].lock
        /\ ~ENABLED Acquire(u)

\* C25: over all calls, get_table_commit_lock returns the same lock for
\* two identifiers exactly when their canonical strings are equal; no
\* more than one lock is created per canonical string, also when first
\* calls for it run concurrently; an entry of the registry is never
\* replaced or removed.
C25_OneLockPerCanonicalString ==
    /\ [](/\ \A p, q \in returned :
               (p[2] = q[2]) <=> (Canonical(p[1]) = Canonical(q[1]))
          /\ locks_created =
               Cardinality({registry[i].key : i \in 1..Len(registry)}
                           \cup {threads[t].key :
                                   t \in {u \in Threads :
                                            threads[u].pc = "store"}}))
    /\ [][/\ Len(registry') >= Len(registry)
          /\ \A i \in 1..Len(registry) : registry'[i] = registry[i]]_vars

\* the tuple ("db", "t1") and the string "db.t1" got one lock, the tuple
\* ("db", "t2") another
C25_Witness ==
    /\ Len(registry) = 2
    /\ locks_created = 2
    /\ \E p, q, r \in returned :
          /\ p[1].tuple /\ ~q[1].tuple /\ p[2] = q[2]
          /\ r[2] # p[2]

\* C26: with every thread holding the lock of its table around its whole
\* run_with_commit_retries call, no commit_fn call is in progress while
\* another thread is anywhere in a run (an attempt, a status poll, a
\* backoff sleep) for a table identifier with the same canonical string.
C26_CommitsSerializedPerTable ==
    \A t, u \in Threads :
        (t # u /\ threads[t].pc = "commit" /\ InRun(u))
          => Canonical(threads[t].table_id[1])
               # Canonical(threads[u].table_id[1])

\* one thread sleeps between two attempts on "db.t1" while the other,
\* called with ("db", "t1"), waits for the lock
C26_Witness ==
    \E t, u \in Threads :
        /\ threads[t].pc = "sleep"
        /\ threads[u].pc = "acquire"
        /\ ~threads[t].table_id[1].tuple
        /\ threads[u].table_id[1].tuple
        /\ Canonical(threads[t].table_id[1]) = Canonical(threads[u].table_id[1])
        /\ owner[threads[u].lock].thread = t

\* the statements of record_state_after_commit from the compare that found
\* a new checkpoint to the last assignment of _last_committed_state
InCompareAndSet(w) ==
    workers[w].pc \in {"write_compare", "write", "write_track",
                       "write_persist", "persist", "track"}

\* C27: the compare of _latest_state with _last_committed_state and the
\* emit/update that follows are not interleaved between threads: at most
\* one thread is between its compare and its update, and threads that run
\* record_state_after_commit with the same _latest_state write it to the
\* output once, so that no checkpoint follows itself on the output.
C27_CompareAndSetGuarded ==
    /\ \A w, x \in Workers :
          (InCompareAndSet(w) /\ InCompareAndSet(x)) => w = x
    /\ \A i \in (Len(startup_out) + 1)..(Len(stdout) - 1) :
          stdout[i] # stdout[i + 1]

\* C31: for every attempt >= 1 and every policy validate_config admits
\* (min_wait_ms <= max_wait_ms, backoff_multiplier >= 0) with jitter 0,
\* compute_backoff does not depend on the random draw, never exceeds
\* max_wait_ms, and does not decrease from one attempt to the next.
C31_BackoffMonotone ==
    (pc = "backoff" /\ config.jitter = 0)
      => \A i \in 1..Len(sleeps) :
            /\ \A u \in JitterDraws(JitterPct) :
                  compute_backoff(i, config.min_wait_ms, config.max_wait_ms,
                      config.backoff_multiplier, config.jitter, u)
                    = sleeps[i][2]
            /\ sleeps[i][2] <= config.max_wait_ms
            /\ i < Len(sleeps) => sleeps[i][2] <= sleeps[i + 1][2]

\* the same for the multipliers >= 1
C31_MonotoneFromOne ==
    config.backoff_multiplier >= 1 => C31_BackoffMonotone

\* the classes of an exception and of the exceptions chained to it
ChainClasses(exc) ==
    {exc.cls} \cup {exc.chain[i].cls : i \in 1..Len(exc.chain)}

\* C32: an exception that is not a CommitFailedException and whose class
\* name, or the class name of an exception chained to it, contains one of
\* the network error names (timeout, connectionerror, connectionreset,
\* connecttimeout, readtimeout, chunkedencodingerror, protocolerror,
\* sslerror), the case of letters set aside, makes is_unknown_commit_state
\* true.
C32_NetworkNamesIndeterminate ==
    verdict # <<>>
      => LET exc == caught[1] IN
         (/\ exc.cls # Name.CommitFailedException
          /\ \E token \in NETWORK_ERROR_NAMES, cls \in ChainClasses(exc) :
                Occurs(Lower(token), Lower(cls)))
            => verdict[1].unknown

\* the same for the names other than sslerror
C32_NamesButSSL ==
    verdict # <<>>
      => LET exc == caught[1] IN
         (/\ exc.cls # Name.CommitFailedException
          /\ \E token \in NETWORK_ERROR_NAMES, cls \in ChainClasses(exc) :
                /\ Occurs(Lower(token), Lower(cls))
                /\ cls # Name.SSLError)
            => verdict[1].unknown

\* the status codes attached to an exception, to its response, to the
\* exceptions chained to it and to their responses
AttachedStatus(exc) ==
    LET chain == exception_chain(exc) IN
    ({chain[i].status_code : i \in 1..Len(chain)}
       \cup {chain[i].response[1] :
               i \in {j \in 1..Len(chain) : chain[j].response # <<>>}})
      \ {None}

\* C33: an exception that is not a CommitFailedException makes
\* is_unknown_commit_state true when a status code of 500, 502, 503 or 504
\* is attached to it, to its response, to an exception chained to it or to
\* that exception's response; a status code outside that set alone (class
\* ValueError, message "bad value", nothing chained) does not.
C33_ServerStatusIndeterminate ==
    verdict # <<>>
      => LET exc == caught[1] IN
         /\ (/\ exc.cls # Name.CommitFailedException
             /\ AttachedStatus(exc) \cap ServerErrorCodes # {})
               => verdict[1].unknown
         /\ (/\ exc.cls = Name.ValueError
             /\ exc.msg = Msg.bad_value
             /\ exc.chain = <<>>
             /\ AttachedStatus(exc) \cap ServerErrorCodes = {})
               => ~verdict[1].unknown

\* the same for the status code the code reads: the exception's own, or
\* without one its response's
C33_OwnStatusOnly ==
    verdict # <<>>
      => LET exc == caught[1]
             own == IF exc.status_code # None THEN exc.status_code
                    ELSE IF exc.response # <<>> THEN exc.response[1]
                    ELSE None
         IN
         /\ (exc.cls # Name.CommitFailedException /\ own \in ServerErrorCodes)
               => verdict[1].unknown
         /\ (/\ exc.cls = Name.ValueError
             /\ exc.msg = Msg.bad_value
             /\ exc.chain = <<>>
             /\ own \notin ServerErrorCodes)
               => ~verdict[1].unknown

\* the sleeps of the polls of attempt a: one after each unconfirmed poll
\* but the last allowed one, computed from the index of the poll with the
\* status-check waits
StatusSleepsOf(a) ==
    LET polls == history[a].polls
        k == Cardinality({i \in 1..Len(polls) :
                ~polls[i] /\ i < config.status_check_num_retries})
    IN  [i \in 1..k |->
            <<"status", compute_backoff(i, config.status_check_min_wait_ms,
                            config.status_check_max_wait_ms,
                            config.backoff_multiplier, config.jitter, 0)>>]

\* the sleep that follows attempt a when the run went on
RetrySleepOf(a) ==
    IF attempt > a \/ (attempt = a /\ pc = "load")
      THEN <<<<"retry", compute_backoff(a, config.min_wait_ms,
                            config.max_wait_ms, config.backoff_multiplier,
                            config.jitter, 0)>>>>
      ELSE <<>>

RECURSIVE ExpectedSleeps(_)
ExpectedSleeps(a) ==
    IF a = 0 THEN <<>>
    ELSE ExpectedSleeps(a - 1) \o StatusSleepsOf(a) \o RetrySleepOf(a)

NoPolls == ~has_status_check_fn \/ config.status_check_num_retries = 0

\* C35: when no status_check_fn is supplied, or status_check_num_retries is
\* 0, an unknown-state error of commit_fn is followed by no status poll and
\* no table_loader call of its own: the run goes to the budget check of a
\* conflict, sleeps the backoff of the attempt and retries, or with the
\* budget exhausted raises the retries-exhausted error with the
\* unknown-state error as its cause.
C35_NoStatusFnStraightToBudget ==
    NoPolls
      => /\ pc # "status"
         /\ \A i \in 1..Len(history) : history[i].polls = <<>>
         /\ loads = attempt
         /\ \A i \in 1..Len(sleeps) : sleeps[i][1] = "retry"
         /\ Len(sleeps) = (IF pc = "load" \/ attempt = 0
                             THEN attempt ELSE attempt - 1)
         /\ (pc = "raised" /\ attempt = Len(history))
               => Last(history).cls = "fatal"
         /\ (pc = "budget" /\ Last(history).cls = "unknown")
               => (retry_budget_exhausted(attempt, now, config)
                     <=> \/ attempt >= max_attempts(config)
                         \/ now >= config.total_timeout_ms)
         /\ (pc = "exhausted" /\ Last(history).cls = "unknown")
               => /\ raised = <<retry_budget_error(attempt, now,
                                    Last(history).exc[1])>>
                  /\ is_unknown_commit_state(raised[1].cause)

\* an unknown state on each of two attempts without status_check_fn, then
\* the budget is exhausted
C35_Witness ==
    /\ pc = "exhausted"
    /\ ~has_status_check_fn
    /\ config.status_check_num_retries >= 1
    /\ attempt = 2
    /\ history[1].cls = "unknown"
    /\ history[2].cls = "unknown"
    /\ loads = 2
    /\ Len(sleeps) = 1
    /\ raised[1].cls = Name.RuntimeError
    /\ raised[1].cause = StateUnknownError

\* what a commit-success notification does to an observed checkpoint that
\* differs from the last committed one: it is written out, persisted when
\* persistence is enabled, and becomes the last committed one
EmitsLatest ==
    /\ stdout' = Append(stdout, latest_state)
    /\ last_committed_state' = latest_state
    /\ state_persist_enabled
          => \E i \in 1..Len(record_state_after_commit(Manager, TRUE, TRUE).writes) :
                record_state_after_commit(Manager, TRUE, TRUE).writes[i]
                  = latest_state

\* C36: for every checkpoint value a STATE message can carry, the empty
\* mapping included: when _latest_state holds it and it differs from
\* _last_committed_state, record_state_after_commit writes it out, persists
\* it and sets _last_committed_state to it; the call changes nothing only
\* when _latest_state is None or equal to _last_committed_state.
C36_EveryObservedValueEmitted ==
    [][DrainOneOk =>
         IF latest_pos > 0 /\ latest_state # None
               /\ latest_state # last_committed_state
           THEN EmitsLatest
           ELSE /\ stdout' = stdout
                /\ last_committed_state' = last_committed_state
                /\ state_file' = state_file]_vars

\* the same for the non-empty checkpoint values
C36_NonEmptyValues ==
    [][DrainOneOk =>
         IF latest_pos > 0 /\ Truthy(latest_state)
               /\ latest_state # last_committed_state
           THEN EmitsLatest
           ELSE /\ stdout' = stdout
                /\ last_committed_state' = last_committed_state
                /\ state_file' = state_file]_vars

\* the attempts whose commit the remote store applied
AppliedAttempts == {a \in 1..Len(applied) : applied[a]}

\* the polls of attempt a all answered False, as many as the run makes
Unconfirmed(a) ==
    /\ \A i \in 1..Len(history[a].polls) : ~history[a].polls[i]
    /\ Len(history[a].polls)
          = (IF NoPolls THEN 0 ELSE config.status_check_num_retries)

\* C37: the change can be applied twice: an attempt's commit is applied by
\* the remote store but commit_fn raises an unknown-state error, the status
\* checks do not confirm it (or none are made), budget remains, and
\* commit_fn is called again (C37_Witness); commit_fn is called again after
\* an applied commit in no other way.
C37_DuplicateApplyAfterUnconfirmed ==
    \A a \in AppliedAttempts :
        a < Len(applied)
          => /\ history[a].cls = "unknown"
             /\ Unconfirmed(a)
             /\ a < max_attempts(config)

\* the first commit applied and unknown, its polls unconfirmed, the second
\* commit applied and returned
C37_Witness ==
    /\ pc = "returned"
    /\ applied = <<TRUE, TRUE>>
    /\ history[1].cls = "unknown"
    /\ history[1].polls # <<>>
    /\ Unconfirmed(1)
    /\ history[2].cls = "ok"
    /\ commits = 2

\* the same with no status check configured
C37_WitnessNoPolls ==
    /\ pc = "returned"
    /\ applied = <<TRUE, TRUE>>
    /\ history[1].cls = "unknown"
    /\ NoPolls
    /\ history[2].cls = "ok"

\* status_check_fn has answered truthfully so far: each poll said True
\* exactly when the change had been applied by then
Truthful ==
    \A a \in 1..Len(history) : \A i \in 1..Len(history[a].polls) :
        history[a].polls[i] <=> (\E b \in AppliedAttempts : b <= a)

TruthfulProbe ==
    /\ has_status_check_fn
    /\ config.status_check_num_retries >= 1
    /\ Truthful

\* C38: with a truthful status_check_fn and status_check_num_retries >= 1
\* the change is applied at most once: after an attempt whose commit was
\* applied but raised an unknown-state error, commit_fn is not called again
\* and the run returns.
C38_TruthfulProbeAppliesOnce ==
    TruthfulProbe
      => /\ Cardinality(AppliedAttempts) <= 1
         /\ \A a \in AppliedAttempts :
               history[a].cls = "unknown"
                 => /\ a = Len(history)
                    /\ commits = a
                    /\ pc \in {"status", "returned"}
                    /\ pc = "returned" => result = <<None>>

\* C38 as the code has it: the run returns None, or raises the exception of
\* a table_loader call made for a poll
C38_AppliesOnceOrLoaderRaises ==
    TruthfulProbe
      => /\ Cardinality(AppliedAttempts) <= 1
         /\ \A a \in AppliedAttempts :
               history[a].cls = "unknown"
                 => /\ a = Len(history)
                    /\ commits = a
                    /\ pc \in {"status", "returned", "raised"}
                    /\ pc = "returned" => result = <<None>>
                    /\ pc = "raised"
                         => /\ loads = Len(uses) + 1
                            /\ raised[1] \in Exceptions

\* the commit was applied and raised an unknown-state error, the first poll
\* confirmed it and the run returned None
C38_Witness ==
    /\ TruthfulProbe
    /\ pc = "returned"
    /\ result = <<None>>
    /\ Last(applied)
    /\ Last(history).cls = "unknown"
    /\ Last(history).polls = <<TRUE>>
    /\ commits = Len(history)

\* v is one of the lines written to the output
Emitted(out, v) == \E i \in 1..Len(out) : out[i] = v

C39_WrittenBeforeInstalled ==
    [][state_file' # state_file
         => \E v \in StateValues :
               /\ state_file' = <<v>>
               /\ Emitted(stdout, v)]_vars

C40_NoAttemptBeginsPastTimeout ==
    (pc = "load" /\ attempt >= 1) => now < config.total_timeout_ms

\* what the budget test before the sleep gives: the time elapsed when the
\* sleep before the attempt began was below total_timeout_ms
C40_TimeoutCheckedBeforeSleep ==
    (pc = "load" /\ attempt >= 1)
      => /\ sleeps # <<>>
         /\ now - Last(sleeps)[2] < config.total_timeout_ms

=============================================================================
